---- MODULE Spec2Model ----
(***************************************************************************)
(* Build phase of werf (pkg/build, build_phase.go): the handler that       *)
(* BuildPhase.onImageStage runs for a non-empty stage, for several image   *)
(* handlers that run in parallel in one or more werf processes over one    *)
(* shared stages storage and one shared storage lock manager.              *)
(*                                                                         *)
(* A builder is one onImageStage call: one image of one process handling   *)
(* its "from" stage.  The stages storage, its digest -> stage-IDs cache    *)
(* and the lock manager are collaborators of the build phase whose code is *)
(* outside build_phase.go; they are modelled by their interface contract.  *)
(*                                                                         *)
(* Two specifications share the handler's steps.  Spec runs NumBuilders    *)
(* handlers of "from" stages in parallel.  ChainSpec runs two builds of an *)
(* image, stage after stage through the stage iterator, each followed by   *)
(* AfterImageStages; there a handler call is one stage of one build.       *)
(***************************************************************************)
EXTENDS Integers, Sequences, FiniteSets, TLC

\* Number of onImageStage calls (image handlers) of the run.
NumBuilders == 2

Builders == 1..NumBuilders

\* werf processes; each has its own Conveyor (its own per-digest mutexes).
Procs == {"procA", "procB"}

\* Dependency strings a "from" stage can report (GetDependencies).
Deps == {"fromCacheVersion=1", "fromCacheVersion=2"}

\* Base images a stage can be built on (GetPrevImage); suitability of a
\* stored stage is the match of its parent image.
BaseImages == {"base1", "base2"}

\* image.BuildCacheVersion, the first argument of every digest.
BuildCacheVersion == "build-cache-version"

\* The stages of an image, in the order the driver hands them to the phase.
StageNames == <<"from", "install", "setup">>

\* The builds of ChainSpec: one *Image object each, walked stage by stage.
ImageBuilds == {1, 2}

\* The handler calls of ChainSpec: build i makes the calls
\* (i-1)*Len(StageNames)+1 .. i*Len(StageNames), one per stage.
StageCalls == 1..(Cardinality(ImageBuilds) * Len(StageNames))

\* LocalGitRepo.HeadCommit: the builds are of one commit.
HeadCommit == "HEAD"

\* The nil digest / nil stage of the Go code.
NoDigest == <<>>

\* The nil stage of the iterator (PrevNonEmptyStage, PrevBuiltStage == nil).
NoStage == 0

\* A nil *image.StageDescription.
NoDesc == [digest |-> NoDigest, uniqueID |-> 0, id |-> 0, parent |-> "none"]

VARIABLES
    proc,                        \* proc[b]: the process builder b runs in
    stageDependencies,           \* what stg.GetDependencies returns for b's stage
    prevImage,                   \* img.GetBaseImage(): the base of b's "from" stage
    ShouldBeBuiltMode,           \* BuildPhaseOptions.ShouldBeBuiltMode of each process
    imageOf,                     \* imageOf[b]: the image (build) whose stage b handles
    phaseOf,                     \* phaseOf[i]: the BuildPhase instance that handles image i
    stgName,                     \* stg.Name() of b's stage
    isEmpty,                     \* stg.IsEmpty of b's stage
    nextStageDependencies,       \* what GetNextStageDependencies returns for b's stage
    imageName,                   \* img.GetName() of image i
    isArtifact,                  \* img.isArtifact of image i
    localGitRepo,                \* Conveyor.GetLocalGitRepo() # nil, per process
    buildOptions,                \* the BuildOptions given to NewBuildPhase, per process
    ReportPath,                  \* the phase's own field ReportPath (81), per process
    ReportFormat,                \* the phase's own field ReportFormat (82), per process
    pc,                          \* position of each handler in onImageStage
    err,                         \* the error the handler returned ("nil": none)
    digest,                      \* stg.GetDigest() of b's stage
    image,                       \* stg.GetImage(): name, StageDescription, built id
    stages,                      \* local `stages` of atomicBuildStageImage
    ShouldAddManagedImageRecord, \* the phase's field, per handler's phase
    digestMutex,                 \* Conveyor.GetStageDigestMutex: holders per (process, digest)
    lockHolders,                 \* StorageLockManager: holders of the lock of (project, digest)
    storedImages,                \* images put into the stages storage by StoreImage
    stagesCache,                 \* digest -> stage-IDs cache of the storage manager
    uniqueIDClock,               \* source of GenerateStageUniqueID (a timestamp)
    calls,                       \* history: the collaborator calls each handler has made
    afterPc,                     \* position of AfterImageStages of image i
    afterErr,                    \* the error AfterImageStages of image i returned
    lastNonEmptyStage,           \* img.SetLastNonEmptyStage: the stage (call) set for image i
    contentDigest,               \* img.SetContentDigest: the content digest of image i
    afterCalls,                  \* history: the storage calls AfterImageStages of i made
    managedImages,               \* StagesStorage: the managed images of the project
    imageMetadata,               \* StagesStorage: (image, commit, stageID) records
    imagesPc,                    \* position of AfterImages of the process's phase
    imagesErr,                   \* the error AfterImages returned
    ImagesReport,                \* phase.ImagesReport.Images: image name -> record
    reportFile,                  \* the file createReport wrote, per process
    opKind,                      \* the sleeping operation RetrySpec runs
    sleepSecondsEnv,             \* value of the operation's WERF_TEST_..._SLEEP_SECONDS_... variable
    opPc,                        \* position of the operation
    attempt,                     \* `attempt` of doCliPullWithRetries / doCliPushWithRetries
    seconds,                     \* what is left of the running time.Sleep, in seconds
    opErr,                       \* the error the operation returned
    ctxCancelled,                \* the build context has been cancelled
    runs,                        \* history: how often the pull / push command has run
    lastErr,                     \* history: the error of the last run of the command
    cancelledInSleep,            \* history: the context was cancelled during a sleep
    sleptAfterCancel,            \* history: a sleep went on after the cancellation
    callsAfterCancel             \* history: the calls made after the cancellation

config == <<proc, stageDependencies, prevImage, ShouldBeBuiltMode, imageOf, phaseOf,
            stgName, isEmpty, nextStageDependencies, imageName, isArtifact,
            localGitRepo, buildOptions, ReportPath, ReportFormat>>

\* The state of AfterImages: the images report and the report file.
reportState == <<imagesPc, imagesErr, ImagesReport, reportFile>>

\* The state of AfterImageStages and of the storage's image records.
afterStages ==
    <<afterPc, afterErr, lastNonEmptyStage, contentDigest, afterCalls, managedImages,
      imageMetadata,
      reportState>>

\* The state of a pull or push with retries and of the test-hook sleeps.
retries ==
    <<opKind, sleepSecondsEnv, opPc, attempt, seconds, opErr, ctxCancelled, runs,
      lastErr, cancelledInSleep, sleptAfterCancel, callsAfterCancel>>

vars == <<config, pc, err, digest, image, stages, ShouldAddManagedImageRecord,
          digestMutex, lockHolders, storedImages, stagesCache, uniqueIDClock, calls,
          afterStages, retries>>

(***************************************************************************)
(* Digest calculator.  util.Sha3_224Hash is taken as injective on its      *)
(* argument list, so a digest is the argument list itself.                 *)
(***************************************************************************)
Sha3_224Hash(checksumArgs) == checksumArgs

\* calculateDigest: prevDigest = NoDigest stands for prevNonEmptyStage == nil.
calculateDigest_WithoutPrevDigest(stageName, stageDeps, prevDigest, prevNextDeps) ==
    LET checksumArgs == <<BuildCacheVersion, stageName, stageDeps>>
    IN  IF prevDigest # NoDigest
        THEN Sha3_224Hash(checksumArgs \o <<prevNextDeps>>)
        ELSE Sha3_224Hash(checksumArgs)
calculateDigest(stageName, stageDeps, prevDigest, prevNextDeps) ==
    LET checksumArgs == <<BuildCacheVersion, stageName, stageDeps>>
    IN  IF prevDigest # NoDigest
        THEN Sha3_224Hash(checksumArgs \o <<prevDigest, prevNextDeps>>)
        ELSE Sha3_224Hash(checksumArgs)

\* Every digest a "from" stage of this model can get.
Digests == { calculateDigest("from", dep, NoDigest, "") : dep \in Deps }

(***************************************************************************)
(* Stage iterator and driver (interface contract).  The iterator's         *)
(* pointers are read off the handler calls of the image that have          *)
(* returned: after a call that returned nil, a non-empty stage is the new  *)
(* PrevNonEmptyStage and, having a stage description, the new              *)
(* PrevBuiltStage.                                                         *)
(***************************************************************************)
\* The handler calls (of either specification).
HandlerCalls == DOMAIN pc

\* The calls for the earlier stages of the image of b.
EarlierStages(b) == { a \in HandlerCalls : imageOf[a] = imageOf[b] /\ a < b }

\* The greatest element of a set of calls; NoStage for the empty set.
LastOf(S) == IF S = {} THEN NoStage ELSE CHOOSE a \in S : \A c \in S : c <= a

\* StagesIterator.PrevNonEmptyStage at the entry of b.
PrevNonEmptyStage_PrevStage(b) == LastOf(EarlierStages(b))
PrevNonEmptyStage(b) ==
    LastOf({ a \in EarlierStages(b) : ~isEmpty[a] /\ pc[a] = "done" /\ err[a] = "nil" })

\* StagesIterator.PrevBuiltStage at the entry of b.
PrevBuiltStage(b) ==
    LastOf({ a \in EarlierStages(b) :
                /\ ~isEmpty[a] /\ pc[a] = "done" /\ err[a] = "nil"
                /\ image[a].desc # NoDesc })

\* The driver hands a stage to the phase when the calls for the earlier stages
\* of the image returned nil, and an image to a phase instance when the
\* instance has finished its earlier images.
StageIsNext(b) ==
    /\ \A a \in EarlierStages(b) : pc[a] = "done" /\ err[a] = "nil"
    /\ \A i \in DOMAIN afterPc :
          (i < imageOf[b] /\ phaseOf[i] = phaseOf[imageOf[b]]) =>
              (afterPc[i] = "done" /\ afterErr[i] = "nil")

\* StagesIterator.GetPrevImage(img, stg).Name(): the base image of "from", the
\* image of the previous non-empty stage of any other stage.
GetPrevImage(b) ==
    IF stgName[b] = "from" THEN prevImage[b]
    ELSE IF PrevNonEmptyStage(b) = NoStage THEN "none"
    ELSE image[PrevNonEmptyStage(b)].name

\* The phase instance whose onImageStage call b is.
PhaseOf(b) == phaseOf[imageOf[b]]

(***************************************************************************)
(* Storage manager and stages storage (interface contract).                *)
(***************************************************************************)
StageIDOf(desc) == [digest |-> desc.digest, uniqueID |-> desc.uniqueID]

\* StagesStorage.GetStageDescription: the stored image with this stage ID.
GetStageDescription(d, uid) ==
    IF \E s \in storedImages : s.digest = d /\ s.uniqueID = uid
    THEN CHOOSE s \in storedImages : s.digest = d /\ s.uniqueID = uid
    ELSE NoDesc

\* StorageManager.GetStagesByDigest: the candidates listed for the digest.
GetStagesByDigest(d) ==
    [i \in 1..Len(stagesCache[d]) |-> GetStageDescription(d, stagesCache[d][i].uniqueID)]

\* The suitability rule: the candidate was built on the stage's previous image.
IsSuitable(b, desc) == desc.parent = GetPrevImage(b)

\* StorageManager.SelectSuitableStage: the oldest suitable candidate, or nil.
SelectSuitableStage(b, candidates) ==
    LET ok == { i \in 1..Len(candidates) : IsSuitable(b, candidates[i]) }
    IN  IF ok = {} THEN NoDesc
        ELSE candidates[CHOOSE i \in ok : \A j \in ok : i <= j]

\* StorageManager.GenerateStageUniqueID: a fresh unique ID for the digest.
GenerateStageUniqueID(d, candidates) == uniqueIDClock + 1

(***************************************************************************)
(* The stage image object of a handler's stage.                            *)
(***************************************************************************)
\* The name of a stage image in the storage: repository by digest, unique tag.
StageImageName(d, uid) == [repo |-> d, tag |-> uid]

\* uuid.New().String(): the placeholder name of an image that is to be built.
PlaceholderName(b) == [repo |-> NoDigest, tag |-> b]

NoImage == [name |-> [repo |-> NoDigest, tag |-> 0], desc |-> NoDesc, builtId |-> 0]

\* GetOrCreateStageImage(prev, stageDesc.Info.Name) + SetStageDescription.
ImageOfDescription_NotSet(desc) ==
    [name |-> StageImageName(desc.digest, desc.uniqueID), desc |-> NoDesc, builtId |-> 0]
ImageOfDescription(desc) ==
    [name |-> StageImageName(desc.digest, desc.uniqueID), desc |-> desc, builtId |-> 0]

\* GetOrCreateStageImage(prev, uuid): a fresh image with no description.
PlaceholderImage(b) == [name |-> PlaceholderName(b), desc |-> NoDesc, builtId |-> 0]

(***************************************************************************)
(* The two locks.                                                          *)
(***************************************************************************)
\* Conveyor.GetStageDigestMutex(digest): one mutex per digest in a process.
GetStageDigestMutex(b) == <<proc[b], digest[b]>>

\* sync.Mutex.Lock blocks while the mutex is held.
DigestMutexFree(b) == digestMutex[GetStageDigestMutex(b)] = {}

\* calculateStage: Do(GetStageDigestMutex(stg.GetDigest()).Lock)
DigestMutexLocked_Skipped(b) == digestMutex
DigestMutexLocked(b) ==
    [digestMutex EXCEPT ![GetStageDigestMutex(b)] = @ \cup {b}]

\* onImageStage: defer GetStageDigestMutex(stg.GetDigest()).Unlock()
DigestMutexUnlocked(b) ==
    [digestMutex EXCEPT ![GetStageDigestMutex(b)] = @ \ {b}]

\* StorageLockManager.LockStage grants the lock of (project, digest) to one holder.
StageLockFree(b) == lockHolders[digest[b]] = {}

\* atomicBuildStageImage: lock, err := LockStage(ctx, projectName, stg.GetDigest())
StageLocked_NotKept(b) == lockHolders
StageLocked(b) == [lockHolders EXCEPT ![digest[b]] = @ \cup {b}]

\* atomicBuildStageImage: defer StorageLockManager.Unlock(ctx, lock)
StageUnlocked_Forgotten(b) == lockHolders
StageUnlocked(b) == [lockHolders EXCEPT ![digest[b]] = @ \ {b}]

(***************************************************************************)
(* Initial state: the handlers have not started, the storage is empty.     *)
(* Handlers, processes, dependency strings and base images are             *)
(* interchangeable, so the first handler is given the first of each and a  *)
(* process that builds; the others take any, in either mode, and are       *)
(* listed in the order of their inputs.                                    *)
(***************************************************************************)
\* The inputs of a handler as one number, to list the handlers in order.
(***************************************************************************)
(* The phase object and its images report.                                 *)
(***************************************************************************)
\* ReportJSON 85-87.
ReportJSON == "json"

\* The BuildOptions a run can give to NewBuildPhase: report path and format.
ReportOptions ==
    { [ReportPath |-> "report.json", ReportFormat |-> ReportJSON],
      [ReportPath |-> "", ReportFormat |-> ReportJSON],
      [ReportPath |-> "report.json", ReportFormat |-> "yaml"] }

\* The options of a run that asks for a JSON report file.
JsonReportOptions == [ReportPath |-> "report.json", ReportFormat |-> ReportJSON]

\* make(map[string]ReportImageRecord): the empty map.
EmptyImagesReport == [n \in {} |-> 0]

\* NewBuildPhase 65-71: the options are stored in the embedded
\* BuildPhaseOptions, the report is an empty map, and the fields the literal
\* does not name (73-83) have their zero values.
NewBuildPhase(opts) ==
    [BuildPhaseOptions |-> opts, ShouldAddManagedImageRecord |-> FALSE,
     ImagesReport |-> EmptyImagesReport,
     ReportPath |-> "", ReportFormat |-> ""]

\* No file at the report path.
NoFile == <<>>

(***************************************************************************)
(* Sleeping operations: the pull and the push of the container driver      *)
(* (pkg/docker/image.go) and the test-hook sleeps of atomicBuildStageImage.*)
(***************************************************************************)
\* image.go 77 and 122.
cliPullMaxAttempts == 5
cliPushMaxAttempts == 10

\* No error (a nil error).
NoError == <<>>

\* The operations of RetrySpec; "none": no such operation runs.
SleepingOperations == {"pull", "push", "sleepBeforeStageBuild", "sleepBeforeStageSave"}
TestHooks == {"sleepBeforeStageBuild", "sleepBeforeStageSave"}

\* Values of a WERF_TEST_ATOMIC_STAGE_BUILD__SLEEP_SECONDS_... variable.
SleepSecondsEnvValues == {"", "0", "3", "soon"}

\* fmt.Sscanf(v, "%d", &seconds) on `seconds := 0` (489-490, 503-504).
Sscanf(v) == IF v = "3" THEN 3 ELSE 0

\* Error messages of a docker pull / push, as sequences of their parts.
CommandErrors ==
    { <<"Error response from daemon:", "i/o timeout">>,
      <<"received unexpected HTTP status:", "504 Gateway Time-out">>,
      <<"Only schema version 2 is supported">>,
      <<"denied:", "requested access to the resource is denied">>,
      <<"context canceled">> }

\* image.go 85-92 and 130-138.
PullSpecificErrors ==
    { "Client.Timeout exceeded while awaiting headers", "TLS handshake timeout",
      "i/o timeout", "504 Gateway Time-out", "504 Gateway Timeout",
      "Internal Server Error" }
PushSpecificErrors ==
    { "Client.Timeout exceeded while awaiting headers", "TLS handshake timeout",
      "i/o timeout", "Only schema version 2 is supported", "504 Gateway Time-out",
      "504 Gateway Timeout", "Internal Server Error" }

\* strings.Contains(err.Error(), specificError), on the parts of a message.
Contains(e, specificError) == \E k \in DOMAIN e : e[k] = specificError

\* rand.Intn(30-15) + 15 (image.go 97 and 143).
BackoffSeconds == 15..29

\* The sleeping operations are at rest: what Spec and ChainSpec start with.
RetriesIdle ==
    /\ opKind = "none"
    /\ sleepSecondsEnv = ""
    /\ opPc = "done"
    /\ attempt = 0
    /\ seconds = 0
    /\ opErr = NoError
    /\ ctxCancelled = FALSE
    /\ runs = 0
    /\ lastErr = NoError
    /\ cancelledInSleep = FALSE
    /\ sleptAfterCancel = FALSE
    /\ callsAfterCancel = {}

InputRank(pr, dep, base) ==
    (IF pr = "procA" THEN 0 ELSE 4) + (IF dep = "fromCacheVersion=1" THEN 0 ELSE 2)
        + (IF base = "base1" THEN 0 ELSE 1)

Init ==
    /\ proc \in [Builders -> Procs]
    /\ proc[1] = "procA"
    /\ stageDependencies \in [Builders -> Deps]
    /\ stageDependencies[1] = "fromCacheVersion=1"
    /\ prevImage \in [Builders -> BaseImages]
    /\ prevImage[1] = "base1"
    /\ \A a, b \in Builders \ {1} :
          a < b => InputRank(proc[a], stageDependencies[a], prevImage[a])
                      <= InputRank(proc[b], stageDependencies[b], prevImage[b])
    /\ ShouldBeBuiltMode \in [Procs -> BOOLEAN]
    /\ ~ShouldBeBuiltMode["procA"]
    /\ imageOf = [b \in Builders |-> b]
    /\ phaseOf = [i \in Builders |-> i]
    /\ stgName = [b \in Builders |-> "from"]
    /\ isEmpty = [b \in Builders |-> FALSE]
    /\ nextStageDependencies = [b \in Builders |-> ""]
    /\ imageName = [i \in Builders |-> "app"]
    /\ isArtifact = [i \in Builders |-> FALSE]
    /\ localGitRepo = [p \in Procs |-> TRUE]
    /\ buildOptions = [p \in Procs |-> JsonReportOptions]
    /\ ReportPath = [p \in Procs |-> NewBuildPhase(buildOptions[p]).ReportPath]
    /\ ReportFormat = [p \in Procs |-> NewBuildPhase(buildOptions[p]).ReportFormat]
    /\ imagesPc = [p \in Procs |-> "images"]
    /\ imagesErr = [p \in Procs |-> "nil"]
    /\ ImagesReport = [p \in Procs |-> NewBuildPhase(buildOptions[p]).ImagesReport]
    /\ reportFile = [p \in Procs |-> NoFile]
    /\ afterPc = [i \in Builders |-> "stages"]
    /\ afterErr = [i \in Builders |-> "nil"]
    /\ lastNonEmptyStage = [i \in Builders |-> NoStage]
    /\ contentDigest = [i \in Builders |-> NoDigest]
    /\ afterCalls = [i \in Builders |-> {}]
    /\ managedImages = {}
    /\ imageMetadata = {}
    /\ pc = [b \in Builders |-> "start"]
    /\ err = [b \in Builders |-> "nil"]
    /\ digest = [b \in Builders |-> NoDigest]
    /\ image = [b \in Builders |-> NoImage]
    /\ stages = [b \in Builders |-> <<>>]
    /\ ShouldAddManagedImageRecord = [b \in Builders |-> FALSE]
    /\ digestMutex = [m \in Procs \X Digests |-> {}]
    /\ lockHolders = [d \in Digests |-> {}]
    /\ storedImages = {}
    /\ stagesCache = [d \in Digests |-> <<>>]
    /\ uniqueIDClock = 0
    /\ calls = [b \in Builders |-> {}]
    /\ RetriesIdle

(***************************************************************************)
(* onImageStage, step by step.                                             *)
(***************************************************************************)
\* The handler returns e; nothing else of its own state changes.
Returns(b, e) ==
    /\ pc' = [pc EXCEPT ![b] = "done"]
    /\ err' = [err EXCEPT ![b] = e]

\* The handler has made these calls (with success or not).
Called(b, names) == calls' = [calls EXCEPT ![b] = @ \cup names]

\* onImageStage 259-269: the state of the iterator that makes the handler of
\* a stage other than "from" and "dockerfile" panic (not in ShouldBeBuiltMode).
PrevStagePanics(b) ==
    /\ ~ShouldBeBuiltMode[proc[b]]
    /\ stgName[b] \notin {"from", "dockerfile"}
    /\ \/ PrevNonEmptyStage(b) = NoStage
       \/ PrevBuiltStage(b) = NoStage
       \/ PrevBuiltStage(b) # PrevNonEmptyStage(b)

\* calculateStage 343: the digest of b's stage, chained on PrevNonEmptyStage.
StageDigest_Unchained(b) ==
    calculateDigest(stgName[b], stageDependencies[b], NoDigest, "")
StageDigest(b) ==
    LET prev == PrevNonEmptyStage(b) IN
    calculateDigest(stgName[b], stageDependencies[b],
                    IF prev = NoStage THEN NoDigest ELSE digest[prev],
                    IF prev = NoStage THEN "" ELSE nextStageDependencies[prev])

\* onImageStage 246-269 and calculateStage 338-347 for a non-empty stage:
\* FetchDependencies, the panics on the iterator's pointers, GetDependencies,
\* calculateDigest (with GetNextStageDependencies of the previous stage),
\* SetDigest.
CalculateDigest(b) ==
    /\ pc[b] = "start"
    /\ StageIsNext(b)
    /\ ~isEmpty[b]
    /\ \/ /\ Returns(b, "FetchDependencies")
          /\ UNCHANGED digest
       \/ /\ PrevStagePanics(b)
          /\ Returns(b, "panic")
          /\ UNCHANGED digest
       \/ /\ ~PrevStagePanics(b)
          /\ \/ Returns(b, "GetDependencies")
             \/ /\ PrevNonEmptyStage(b) # NoStage
                /\ Returns(b, "GetNextStageDependencies")
          /\ UNCHANGED digest
       \/ /\ ~PrevStagePanics(b)
          /\ digest' = [digest EXCEPT ![b] = StageDigest(b)]
          /\ pc' = [pc EXCEPT ![b] = "lock"]
          /\ UNCHANGED err
    /\ UNCHANGED <<config, retries, afterStages, image, stages, ShouldAddManagedImageRecord, digestMutex,
                   lockHolders, storedImages, stagesCache, uniqueIDClock, calls>>

\* calculateStage 349-355: lock the in-process mutex of the digest.
LockDigestMutex(b) ==
    /\ pc[b] = "lock"
    /\ DigestMutexFree(b)
    /\ digestMutex' = DigestMutexLocked(b)
    /\ pc' = [pc EXCEPT ![b] = "calculate"]
    /\ UNCHANGED <<config, retries, afterStages, err, digest, image, stages, ShouldAddManagedImageRecord,
                   lockHolders, storedImages, stagesCache, uniqueIDClock, calls>>

\* calculateStage 357-362: the stage description selected at the first lookup.
CalculatedStageDesc_Miss(b) == NoDesc
CalculatedStageDesc(b) == SelectSuitableStage(b, GetStagesByDigest(digest[b]))

\* onImageStage 250-251 and 271: the shouldBeBuiltMode argument of
\* calculateStage is the phase's ShouldBeBuiltMode.
shouldBeBuiltMode_False(b) == FALSE
shouldBeBuiltMode(b) == ShouldBeBuiltMode[proc[b]]

\* calculateStage 357-387, and the `return err` of onImageStage 251-254 and
\* 271-273 that follows a failed calculateStage.
calculateStage(b) ==
    /\ pc[b] = "calculate"
    /\ LET stageDesc == CalculatedStageDesc(b) IN
       \/ /\ \E e \in {"GetStagesByDigest", "SelectSuitableStage"} : Returns(b, e)
          /\ UNCHANGED image
       \/ /\ stageDesc # NoDesc
          /\ image' = [image EXCEPT ![b] = ImageOfDescription(stageDesc)]
          /\ \/ Returns(b, "ContentDigest")
             \/ /\ pc' = [pc EXCEPT ![b] = "calculated"]
                /\ UNCHANGED err
       \/ /\ stageDesc = NoDesc
          /\ shouldBeBuiltMode(b)
          /\ Returns(b, "stages required")
          /\ UNCHANGED image
       \/ /\ stageDesc = NoDesc
          /\ ~shouldBeBuiltMode(b)
          /\ image' = [image EXCEPT ![b] = PlaceholderImage(b)]
          /\ \/ Returns(b, "ContentDigest")
             \/ /\ pc' = [pc EXCEPT ![b] = "calculated"]
                /\ UNCHANGED err
    /\ UNCHANGED <<config, retries, afterStages, digest, stages, ShouldAddManagedImageRecord, digestMutex,
                   lockHolders, storedImages, stagesCache, uniqueIDClock, calls>>

\* onImageStage 256-257 (ShouldBeBuiltMode) and 276-291 (cache hit): the
\* handler returns and the deferred Unlock of the digest mutex runs.
UseCacheImage(b) ==
    /\ pc[b] = "calculated"
    /\ ShouldBeBuiltMode[proc[b]] \/ image[b].desc # NoDesc
    /\ \/ Returns(b, "nil")
       \/ /\ ~ShouldBeBuiltMode[proc[b]]
          /\ Returns(b, "Introspect")
    /\ digestMutex' = DigestMutexUnlocked(b)
    /\ UNCHANGED <<config, retries, afterStages, digest, image, stages, ShouldAddManagedImageRecord,
                   lockHolders, storedImages, stagesCache, uniqueIDClock, calls>>

\* fetchBaseImageForStage 316-328: "from" fetches the base image, "dockerfile"
\* fetches nothing, any other stage fetches PrevBuiltStage from the storage.
FetchCalls(b) ==
    IF stgName[b] = "from" THEN {"FetchBaseImage"}
    ELSE IF stgName[b] = "dockerfile" THEN {}
    ELSE {"FetchStage"}

\* img.isDockerfileImage (buildStage 444): the image is built from a
\* Dockerfile, by its one stage "dockerfile"; every other image is a stapel
\* image, whose first stage is "from".
isDockerfileImage(b) ==
    \E a \in DOMAIN pc : imageOf[a] = imageOf[b] /\ stgName[a] = "dockerfile"

\* onImageStage 293-299 and buildStage 443-471: fetchBaseImageForStage,
\* prepareStageInstructions, stapel.GetOrCreateContainer for an image that is
\* not a dockerfile image (444-449), and PreRunHook.
PrepareStage(b) ==
    /\ pc[b] = "calculated"
    /\ ~ShouldBeBuiltMode[proc[b]]
    /\ image[b].desc = NoDesc
    /\ \/ /\ \E e \in FetchCalls(b) : Returns(b, e)
          /\ Called(b, FetchCalls(b))
          /\ digestMutex' = DigestMutexUnlocked(b)
       \/ /\ Returns(b, "PrepareImage")
          /\ Called(b, FetchCalls(b) \cup {"PrepareImage"})
          /\ digestMutex' = DigestMutexUnlocked(b)
       \/ /\ ~isDockerfileImage(b)
          /\ Returns(b, "GetOrCreateContainer")
          /\ Called(b, FetchCalls(b) \cup {"PrepareImage"})
          /\ digestMutex' = DigestMutexUnlocked(b)
       \/ /\ Returns(b, "PreRunHook")
          /\ Called(b, FetchCalls(b) \cup {"PrepareImage", "PreRunHook"})
          /\ digestMutex' = DigestMutexUnlocked(b)
       \/ /\ pc' = [pc EXCEPT ![b] = "build"]
          /\ Called(b, FetchCalls(b) \cup {"PrepareImage", "PreRunHook"})
          /\ UNCHANGED <<err, digestMutex>>
    /\ UNCHANGED <<config, retries, afterStages, digest, image, stages, ShouldAddManagedImageRecord,
                   lockHolders, storedImages, stagesCache, uniqueIDClock>>

\* atomicBuildStageImage 495-499: stageImage.Build runs while pc = "build".
Build(b) ==
    /\ pc[b] = "build"
    /\ \/ /\ Returns(b, "Build")
          /\ digestMutex' = DigestMutexUnlocked(b)
          /\ UNCHANGED image
       \/ /\ image' = [image EXCEPT ![b].builtId = b]
          /\ pc' = [pc EXCEPT ![b] = "lockStage"]
          /\ UNCHANGED <<err, digestMutex>>
    /\ Called(b, {"Build"})
    /\ UNCHANGED <<config, retries, afterStages, digest, stages, ShouldAddManagedImageRecord,
                   lockHolders, storedImages, stagesCache, uniqueIDClock>>

\* atomicBuildStageImage 508-512: LockStage and the deferred Unlock.
LockStage(b) ==
    /\ pc[b] = "lockStage"
    /\ \/ /\ Returns(b, "LockStage")
          /\ digestMutex' = DigestMutexUnlocked(b)
          /\ UNCHANGED lockHolders
       \/ /\ StageLockFree(b)
          /\ lockHolders' = StageLocked(b)
          /\ pc' = [pc EXCEPT ![b] = "recheck"]
          /\ UNCHANGED <<err, digestMutex>>
    /\ Called(b, {"LockStage"})
    /\ UNCHANGED <<config, retries, afterStages, digest, image, stages, ShouldAddManagedImageRecord,
                   storedImages, stagesCache, uniqueIDClock>>

\* atomicBuildStageImage 514-519: the stage description selected at the
\* re-check made under the lock of (project, digest).
RecheckedStageDesc_NoRecheck(b) == NoDesc
RecheckedStageDesc(b) == SelectSuitableStage(b, GetStagesByDigest(digest[b]))

\* atomicBuildStageImage 514-543: the re-query and re-selection under the lock;
\* either the built image is discarded (519-537) or it gets its final name
\* (539-543).  A return releases the stage lock (deferred, 511); a return with
\* an error goes on through buildStage and onImageStage, whose deferred Unlock
\* (274) releases the digest mutex.
Recheck(b) ==
    /\ pc[b] = "recheck"
    /\ LET candidates == GetStagesByDigest(digest[b])
           stageDesc == RecheckedStageDesc(b)
       IN
       \/ /\ \E e \in {"GetStagesByDigest", "SelectSuitableStage"} : Returns(b, e)
          /\ lockHolders' = StageUnlocked(b)
          /\ digestMutex' = DigestMutexUnlocked(b)
          /\ UNCHANGED <<image, stages, uniqueIDClock>>
       \/ /\ stageDesc # NoDesc
          /\ image' = [image EXCEPT ![b] = ImageOfDescription(stageDesc)]
          /\ lockHolders' = StageUnlocked(b)
          /\ pc' = [pc EXCEPT ![b] = "built"]
          /\ UNCHANGED <<err, stages, digestMutex, uniqueIDClock>>
       \/ /\ stageDesc = NoDesc
          /\ LET uniqueID == GenerateStageUniqueID(digest[b], candidates) IN
             /\ image' = [image EXCEPT ![b].name = StageImageName(digest[b], uniqueID)]
             /\ uniqueIDClock' = uniqueID
          /\ stages' = [stages EXCEPT ![b] = candidates]
          /\ pc' = [pc EXCEPT ![b] = "store"]
          /\ UNCHANGED <<err, digestMutex, lockHolders>>
    /\ UNCHANGED <<config, retries, afterStages, digest, ShouldAddManagedImageRecord, storedImages,
                   stagesCache, calls>>

\* What StoreImage puts into the storage for the built image of b.
BuiltStageDescription_BeforeRename(b) ==
    [digest |-> digest[b], uniqueID |-> 0,
     id |-> image[b].builtId, parent |-> GetPrevImage(b)]
BuiltStageDescription(b) ==
    [digest |-> digest[b], uniqueID |-> image[b].name.tag,
     id |-> image[b].builtId, parent |-> GetPrevImage(b)]

\* atomicBuildStageImage 545-548: StagesStorage.StoreImage.
StoreImage(b) ==
    /\ pc[b] = "store"
    /\ \/ /\ Returns(b, "StoreImage")
          /\ lockHolders' = StageUnlocked(b)
          /\ digestMutex' = DigestMutexUnlocked(b)
          /\ UNCHANGED storedImages
       \/ /\ storedImages' = storedImages \cup {BuiltStageDescription(b)}
          /\ pc' = [pc EXCEPT ![b] = "getDescription"]
          /\ UNCHANGED <<err, lockHolders, digestMutex>>
    /\ Called(b, {"StoreImage"})
    /\ UNCHANGED <<config, retries, afterStages, digest, image, stages, ShouldAddManagedImageRecord,
                   stagesCache, uniqueIDClock>>

\* atomicBuildStageImage 549-553: read the description back and set it.
ReadBackStageDescription(b) ==
    /\ pc[b] = "getDescription"
    /\ \/ /\ Returns(b, "GetStageDescription")
          /\ lockHolders' = StageUnlocked(b)
          /\ digestMutex' = DigestMutexUnlocked(b)
          /\ UNCHANGED image
       \/ /\ image' = [image EXCEPT ![b].desc =
                          GetStageDescription(digest[b], image[b].name.tag)]
          /\ pc' = [pc EXCEPT ![b] = "storeToCache"]
          /\ UNCHANGED <<err, lockHolders, digestMutex>>
    /\ Called(b, {"GetStageDescription"})
    /\ UNCHANGED <<config, retries, afterStages, digest, stages, ShouldAddManagedImageRecord,
                   storedImages, stagesCache, uniqueIDClock>>

\* atomicBuildStageImage 559-563: every candidate of the re-query plus the new ID.
StageIDsToStore_WithoutNew(b) ==
    [i \in 1..Len(stages[b]) |-> StageIDOf(stages[b][i])]
StageIDsToStore_OnlyNew(b) == <<StageIDOf(image[b].desc)>>
StageIDsToStore(b) ==
    Append([i \in 1..Len(stages[b]) |-> StageIDOf(stages[b][i])],
           StageIDOf(image[b].desc))

\* atomicBuildStageImage 565: AtomicStoreStagesByDigestToCache, then the return.
AtomicStoreStagesByDigestToCache(b) ==
    /\ pc[b] = "storeToCache"
    /\ \/ /\ Returns(b, "AtomicStoreStagesByDigestToCache")
          /\ digestMutex' = DigestMutexUnlocked(b)
          /\ UNCHANGED stagesCache
       \/ /\ stagesCache' = [stagesCache EXCEPT ![digest[b]] = StageIDsToStore(b)]
          /\ pc' = [pc EXCEPT ![b] = "built"]
          /\ UNCHANGED <<err, digestMutex>>
    /\ lockHolders' = StageUnlocked(b)
    /\ Called(b, {"AtomicStoreStagesByDigestToCache"})
    /\ UNCHANGED <<config, retries, afterStages, digest, image, stages, ShouldAddManagedImageRecord,
                   storedImages, uniqueIDClock>>

\* buildStage 476-482 and onImageStage 305-312: introspection, the panic on a
\* missing description, ShouldAddManagedImageRecord, and the return with the
\* deferred Unlock of the digest mutex.
AfterBuildStage(b) ==
    /\ pc[b] = "built"
    /\ \/ /\ Returns(b, "Introspect")
          /\ UNCHANGED ShouldAddManagedImageRecord
       \/ /\ image[b].desc = NoDesc
          /\ Returns(b, "panic")
          /\ UNCHANGED ShouldAddManagedImageRecord
       \/ /\ image[b].desc # NoDesc
          /\ ShouldAddManagedImageRecord' =
                [ShouldAddManagedImageRecord EXCEPT ![PhaseOf(b)] = TRUE]
          /\ Returns(b, "nil")
    /\ digestMutex' = DigestMutexUnlocked(b)
    /\ UNCHANGED <<config, retries, afterStages, digest, image, stages, lockHolders, storedImages,
                   stagesCache, uniqueIDClock, calls>>

onImageStage(b) ==
    \/ CalculateDigest(b)
    \/ LockDigestMutex(b)
    \/ calculateStage(b)
    \/ UseCacheImage(b)
    \/ PrepareStage(b)
    \/ Build(b)
    \/ LockStage(b)
    \/ Recheck(b)
    \/ StoreImage(b)
    \/ ReadBackStageDescription(b)
    \/ AtomicStoreStagesByDigestToCache(b)
    \/ AfterBuildStage(b)

Next == \E b \in Builders : onImageStage(b)

Spec == Init /\ [][Next]_vars

\* The handlers under fair scheduling: a handler that can take a step of
\* onImageStage eventually takes one (every goroutine is scheduled, and every
\* call to the storage, the lock manager and the container runtime returns).
FairSpec == Spec /\ \A b \in Builders : WF_vars(onImageStage(b))

(***************************************************************************)
(* The build of an image, stage after stage: the stage iterator's          *)
(* OnImageStage for an empty stage, and AfterImageStages.                  *)
(***************************************************************************)
\* OnImageStage 235-239 and onImageStage 242-244: the handler of an empty
\* stage returns nil at once.
OnImageStage_FetchesDependencies(b) ==
    /\ pc[b] = "start"
    /\ StageIsNext(b)
    /\ isEmpty[b]
    /\ \E e \in {"nil", "FetchDependencies"} : Returns(b, e)
    /\ UNCHANGED <<config, retries, afterStages, digest, image, stages,
                   ShouldAddManagedImageRecord, digestMutex, lockHolders,
                   storedImages, stagesCache, uniqueIDClock, calls>>
OnImageStage(b) ==
    /\ pc[b] = "start"
    /\ StageIsNext(b)
    /\ isEmpty[b]
    /\ Returns(b, "nil")
    /\ UNCHANGED <<config, retries, afterStages, digest, image, stages,
                   ShouldAddManagedImageRecord, digestMutex, lockHolders,
                   storedImages, stagesCache, uniqueIDClock, calls>>

\* The handler calls of image i.
StagesOf(i) == { b \in HandlerCalls : imageOf[b] = i }

\* The process that builds image i.
ProcOf(i) == proc[CHOOSE b \in StagesOf(i) : TRUE]

\* StagesIterator.PrevNonEmptyStage after the last stage of image i.
LastPrevNonEmptyStage(i) ==
    LastOf({ b \in StagesOf(i) : ~isEmpty[b] /\ pc[b] = "done" /\ err[b] = "nil" })

\* calculateStage 378-382: stg.GetContentDigest(), the digest of the stage's
\* name with "-content", no dependencies, and the stage itself as the
\* previous non-empty stage.
GetContentDigest(b) ==
    calculateDigest(stgName[b] \o "-content", "", digest[b], nextStageDependencies[b])

\* AfterImageStages 173: the image is an artifact.
IsArtifact_Ignored(i) == FALSE
IsArtifact(i) == isArtifact[i]

\* AfterImageStages of image i returns e.
AfterReturns(i, e) ==
    /\ afterPc' = [afterPc EXCEPT ![i] = "done"]
    /\ afterErr' = [afterErr EXCEPT ![i] = e]

AfterCalled(i, names) == afterCalls' = [afterCalls EXCEPT ![i] = @ \cup names]

\* AfterImageStages 169-186 with addManagedImage 188-196: the last non-empty
\* stage is set, an artifact is done, and the image is added to the managed
\* images when the phase's ShouldAddManagedImageRecord is set.
AfterImageStages(i) ==
    /\ afterPc[i] = "stages"
    /\ \A b \in StagesOf(i) : pc[b] = "done" /\ err[b] = "nil"
    /\ lastNonEmptyStage' = [lastNonEmptyStage EXCEPT ![i] = LastPrevNonEmptyStage(i)]
    /\ \/ /\ LastPrevNonEmptyStage(i) = NoStage
          /\ AfterReturns(i, "panic")
          /\ UNCHANGED <<contentDigest, afterCalls, managedImages>>
       \/ /\ LastPrevNonEmptyStage(i) # NoStage
          /\ contentDigest' =
                [contentDigest EXCEPT ![i] = GetContentDigest(LastPrevNonEmptyStage(i))]
          /\ IsArtifact(i)
          /\ AfterReturns(i, "nil")
          /\ UNCHANGED <<afterCalls, managedImages>>
       \/ /\ LastPrevNonEmptyStage(i) # NoStage
          /\ contentDigest' =
                [contentDigest EXCEPT ![i] = GetContentDigest(LastPrevNonEmptyStage(i))]
          /\ ~IsArtifact(i)
          /\ ShouldAddManagedImageRecord[phaseOf[i]]
          /\ AfterCalled(i, {"AddManagedImage"})
          /\ \/ /\ AfterReturns(i, "AddManagedImage")
                /\ UNCHANGED managedImages
             \/ /\ managedImages' = managedImages \cup {imageName[i]}
                /\ afterPc' = [afterPc EXCEPT ![i] = "publishImageMetadata"]
                /\ UNCHANGED afterErr
       \/ /\ LastPrevNonEmptyStage(i) # NoStage
          /\ contentDigest' =
                [contentDigest EXCEPT ![i] = GetContentDigest(LastPrevNonEmptyStage(i))]
          /\ ~IsArtifact(i)
          /\ ~ShouldAddManagedImageRecord[phaseOf[i]]
          /\ afterPc' = [afterPc EXCEPT ![i] = "publishImageMetadata"]
          /\ UNCHANGED <<afterErr, afterCalls, managedImages>>
    /\ UNCHANGED <<config, retries, pc, err, digest, image, stages, ShouldAddManagedImageRecord,
                   digestMutex, lockHolders, storedImages, stagesCache, uniqueIDClock,
                   calls, imageMetadata, reportState>>

\* img.GetStageID(): the stage ID of the image of the last non-empty stage.
GetStageID(i) == StageIDOf(image[lastNonEmptyStage[i]].desc)

\* The record publishImageMetadata looks up and puts for image i.
ImageMetadataOf(i) == <<imageName[i], HeadCommit, GetStageID(i)>>

\* publishImageMetadata 208: what IsImageMetadataExist answers.
IsImageMetadataExist(i) == ImageMetadataOf(i) \in imageMetadata

\* publishImageMetadata 198-213: GetLocalGitRepo, HeadCommit and
\* IsImageMetadataExist; the call returns unless the record is missing.
publishImageMetadata(i) ==
    /\ afterPc[i] = "publishImageMetadata"
    /\ \/ /\ ~localGitRepo[ProcOf(i)]
          /\ AfterReturns(i, "nil")
          /\ UNCHANGED afterCalls
       \/ /\ localGitRepo[ProcOf(i)]
          /\ AfterReturns(i, "HeadCommit")
          /\ UNCHANGED afterCalls
       \/ /\ localGitRepo[ProcOf(i)]
          /\ AfterCalled(i, {"IsImageMetadataExist"})
          /\ \/ AfterReturns(i, "IsImageMetadataExist")
             \/ /\ IsImageMetadataExist(i)
                /\ AfterReturns(i, "nil")
             \/ /\ ~IsImageMetadataExist(i)
                /\ afterPc' = [afterPc EXCEPT ![i] = "putImageMetadata"]
                /\ UNCHANGED afterErr
    /\ UNCHANGED <<config, retries, pc, err, digest, image, stages, ShouldAddManagedImageRecord,
                   digestMutex, lockHolders, storedImages, stagesCache, uniqueIDClock,
                   calls, lastNonEmptyStage, contentDigest, managedImages,
                   imageMetadata, reportState>>

\* publishImageMetadata 213-215: PutImageMetadata, and the return.
PutImageMetadata(i) ==
    /\ afterPc[i] = "putImageMetadata"
    /\ AfterCalled(i, {"PutImageMetadata"})
    /\ \/ /\ AfterReturns(i, "PutImageMetadata")
          /\ UNCHANGED imageMetadata
       \/ /\ imageMetadata' = imageMetadata \cup {ImageMetadataOf(i)}
          /\ AfterReturns(i, "nil")
    /\ UNCHANGED <<config, retries, pc, err, digest, image, stages, ShouldAddManagedImageRecord,
                   digestMutex, lockHolders, storedImages, stagesCache, uniqueIDClock,
                   calls, lastNonEmptyStage, contentDigest, managedImages, reportState>>

(***************************************************************************)
(* AfterImages: the images report of a process's build.                    *)
(***************************************************************************)
\* Conveyor.images of process p.
ImagesOf(p) == { i \in DOMAIN afterPc : ProcOf(i) = p }

\* The Info of a stage description: name, repository, tag and ID.
InfoName(desc) == StageImageName(desc.digest, desc.uniqueID)
InfoRepository(desc) == InfoName(desc).repo
InfoTag(desc) == InfoName(desc).tag
InfoID(desc) == desc.id

\* createReport 133-139: the record of image i, from the description of the
\* image of its last non-empty stage.
ReportImageRecord_OfBuiltImage(i) ==
    LET img == image[lastNonEmptyStage[i]] IN
    [WerfImageName |-> img.name, DockerRepo |-> img.name.repo,
     DockerTag |-> img.name.tag, DockerImageID |-> img.builtId]
ReportImageRecord(i) ==
    LET desc == image[lastNonEmptyStage[i]].desc IN
    [WerfImageName |-> InfoName(desc), DockerRepo |-> InfoRepository(desc),
     DockerTag |-> InfoTag(desc), DockerImageID |-> InfoID(desc)]

\* createReport 129-131: artifacts are skipped.
InReport_EveryImage(i) == TRUE
InReport(i) == ~isArtifact[i]

\* ImagesReport.SetImageRecord 96-100.
SetImageRecord(report, name, imageRecord) ==
    [n \in (DOMAIN report) \cup {name} |-> IF n = name THEN imageRecord ELSE report[n]]

\* createReport 128-140: the loop over the images, in the order of the slice.
RECURSIVE SetImageRecords(_, _)
SetImageRecords(report, imgs) ==
    IF imgs = {} THEN report
    ELSE LET i == CHOOSE x \in imgs : \A y \in imgs : x <= y
             next == IF InReport(i)
                     THEN SetImageRecord(report, imageName[i], ReportImageRecord(i))
                     ELSE report
         IN  SetImageRecords(next, imgs \ {i})

\* ImagesReport.ToJson 102-106: the JSON document of the report.
ToJson(report) == [Images |-> report]

\* createReport 148: the data followed by a newline, at the report path.
ReportFileOf(path, data) == [path |-> path, data |-> Append(<<data>>, "\n")]

\* AfterImages returns e.
ImagesReturns(p, e) ==
    /\ imagesPc' = [imagesPc EXCEPT ![p] = "done"]
    /\ imagesErr' = [imagesErr EXCEPT ![p] = e]

\* AfterImages 123-125 with createReport 127-155, called by the driver when
\* every image of the process has been handled without an error.
AfterImages(p) ==
    /\ imagesPc[p] = "images"
    /\ ImagesOf(p) # {}
    /\ \A i \in ImagesOf(p) : afterPc[i] = "done" /\ afterErr[i] = "nil"
    /\ ImagesReport' =
          [ImagesReport EXCEPT ![p] = SetImageRecords(ImagesReport[p], ImagesOf(p))]
    /\ \/ /\ ImagesReturns(p, "ToJson")
          /\ UNCHANGED reportFile
       \/ /\ ReportPath[p] # "" /\ ReportFormat[p] = ReportJSON
          /\ \/ /\ ImagesReturns(p, "WriteFile")
                /\ UNCHANGED reportFile
             \/ /\ reportFile' =
                      [reportFile EXCEPT
                          ![p] = ReportFileOf(ReportPath[p], ToJson(ImagesReport'[p]))]
                /\ ImagesReturns(p, "nil")
       \/ /\ ~(ReportPath[p] # "" /\ ReportFormat[p] = ReportJSON)
          /\ ImagesReturns(p, "nil")
          /\ UNCHANGED reportFile
    /\ UNCHANGED <<config, retries, pc, err, digest, image, stages, ShouldAddManagedImageRecord,
                   digestMutex, lockHolders, storedImages, stagesCache, uniqueIDClock,
                   calls, afterPc, afterErr, lastNonEmptyStage, contentDigest, afterCalls,
                   managedImages, imageMetadata>>

(***************************************************************************)
(* ChainSpec: two builds of an image of three stages.  The first build is  *)
(* the baseline; the second one is placed in the same phase instance       *)
(* (after the first), in a clone of the phase (in parallel) or in another  *)
(* process, and differs from the baseline in at most one input.  The two   *)
(* placements that run two building builds side by side take two of the    *)
(* variations each.                                                        *)
(***************************************************************************)
\* The stage and the build of a handler call.
StageIndexOf(b) == ((b - 1) % Len(StageNames)) + 1
ImageOfCall(b) == ((b - 1) \div Len(StageNames)) + 1

\* Where the second build runs.
Placements == {"samePhase", "clonedPhase", "otherProcess", "otherProcessShouldBeBuilt"}

\* The input of the second build that differs from the first build's.
Variations ==
    {"none", "from", "install", "setup", "nextStageDependencies", "baseImage",
     "isEmpty", "isArtifact", "localGitRepo"}

\* The dependencies of a stage: of the baseline, and changed.
DependenciesOf(name, changed) ==
    IF name = "from"
    THEN (IF changed THEN "fromCacheVersion=2" ELSE "fromCacheVersion=1")
    ELSE IF name = "install"
    THEN (IF changed THEN "install=2" ELSE "install=1")
    ELSE (IF changed THEN "setup=2" ELSE "setup=1")

\* The digest the inputs of the image give the stage of call b: the chain of
\* calculateDigest over the non-empty stages up to b.
RECURSIVE ExpectedDigest(_)
ExpectedDigest(b) ==
    LET prev == LastOf({ a \in EarlierStages(b) : ~isEmpty[a] }) IN
    calculateDigest(stgName[b], stageDependencies[b],
                    IF prev = NoStage THEN NoDigest ELSE ExpectedDigest(prev),
                    IF prev = NoStage THEN "" ELSE nextStageDependencies[prev])

InitChain ==
    \E placement \in Placements, variation \in Variations, installIsEmpty \in BOOLEAN,
       reportOptions \in ReportOptions :
    LET other == placement \in {"otherProcess", "otherProcessShouldBeBuilt"}
        second(b) == ImageOfCall(b) = 2
    IN
    /\ variation = "localGitRepo" => placement = "otherProcessShouldBeBuilt"
    /\ placement = "clonedPhase" => variation \in {"none", "baseImage"}
    /\ placement = "otherProcess" => variation \in {"none", "isEmpty"}
    /\ (placement # "samePhase" \/ variation \notin {"none", "isArtifact"}) =>
          reportOptions = JsonReportOptions
    /\ buildOptions = [p \in Procs |-> reportOptions]
    /\ ReportPath = [p \in Procs |-> NewBuildPhase(buildOptions[p]).ReportPath]
    /\ ReportFormat = [p \in Procs |-> NewBuildPhase(buildOptions[p]).ReportFormat]
    /\ imagesPc = [p \in Procs |-> "images"]
    /\ imagesErr = [p \in Procs |-> "nil"]
    /\ ImagesReport = [p \in Procs |-> NewBuildPhase(buildOptions[p]).ImagesReport]
    /\ reportFile = [p \in Procs |-> NoFile]
    /\ proc = [b \in StageCalls |-> IF second(b) /\ other THEN "procB" ELSE "procA"]
    /\ imageOf = [b \in StageCalls |-> ImageOfCall(b)]
    /\ phaseOf = [i \in ImageBuilds |-> IF placement = "samePhase" THEN 1 ELSE i]
    /\ stgName = [b \in StageCalls |-> StageNames[StageIndexOf(b)]]
    /\ stageDependencies =
          [b \in StageCalls |->
              DependenciesOf(StageNames[StageIndexOf(b)],
                             second(b) /\ variation = StageNames[StageIndexOf(b)])]
    /\ nextStageDependencies =
          [b \in StageCalls |->
              IF second(b) /\ StageIndexOf(b) = 1 /\ variation = "nextStageDependencies"
              THEN "gitPatch=1" ELSE ""]
    /\ prevImage =
          [b \in StageCalls |->
              IF second(b) /\ variation = "baseImage" THEN "base2" ELSE "base1"]
    /\ isEmpty =
          [b \in StageCalls |->
              /\ StageNames[StageIndexOf(b)] = "install"
              /\ installIsEmpty # (second(b) /\ variation = "isEmpty")]
    /\ imageName = [i \in ImageBuilds |-> IF i = 1 \/ other THEN "app" ELSE "worker"]
    /\ isArtifact = [i \in ImageBuilds |-> i = 2 /\ variation = "isArtifact"]
    /\ localGitRepo = [p \in Procs |-> ~(p = "procB" /\ variation = "localGitRepo")]
    /\ ShouldBeBuiltMode =
          [p \in Procs |-> p = "procB" /\ placement = "otherProcessShouldBeBuilt"]
    /\ pc = [b \in StageCalls |-> "start"]
    /\ err = [b \in StageCalls |-> "nil"]
    /\ digest = [b \in StageCalls |-> NoDigest]
    /\ image = [b \in StageCalls |-> NoImage]
    /\ stages = [b \in StageCalls |-> <<>>]
    /\ calls = [b \in StageCalls |-> {}]
    /\ ShouldAddManagedImageRecord = [i \in ImageBuilds |-> FALSE]
    /\ LET digests == { ExpectedDigest(b) : b \in StageCalls } IN
       /\ digestMutex = [k \in Procs \X digests |-> {}]
       /\ lockHolders = [d \in digests |-> {}]
       /\ stagesCache = [d \in digests |-> <<>>]
    /\ storedImages = {}
    /\ uniqueIDClock = 0
    /\ afterPc = [i \in ImageBuilds |-> "stages"]
    /\ afterErr = [i \in ImageBuilds |-> "nil"]
    /\ lastNonEmptyStage = [i \in ImageBuilds |-> NoStage]
    /\ contentDigest = [i \in ImageBuilds |-> NoDigest]
    /\ afterCalls = [i \in ImageBuilds |-> {}]
    /\ managedImages = {}
    /\ imageMetadata = {}
    /\ RetriesIdle

NextChain ==
    \/ \E b \in StageCalls : OnImageStage(b) \/ onImageStage(b)
    \/ \E i \in ImageBuilds :
          AfterImageStages(i) \/ publishImageMetadata(i) \/ PutImageMetadata(i)
    \/ \E p \in Procs : AfterImages(p)

ChainSpec == InitChain /\ [][NextChain]_vars

(***************************************************************************)
(* RetrySpec: one sleeping operation under a build context that can be     *)
(* cancelled at any moment: a pull or a push with retries, or one of the   *)
(* two test-hook sleeps of atomicBuildStageImage with the call that        *)
(* follows it.  Time passes in seconds.                                    *)
(***************************************************************************)
\* The call made after the current one, when the context is cancelled.
CalledAfterCancel(name) ==
    callsAfterCancel' =
        IF ctxCancelled THEN callsAfterCancel \cup {name} ELSE callsAfterCancel

\* The operation returns e.
OperationReturns(e) ==
    /\ opPc' = "done"
    /\ opErr' = e

\* The body of the tryPull / tryPush loop (image.go 82-109 and 127-157): one
\* run of the command, then the return, or attempt++ and the backoff sleep.
tryCommand(kind, maxAttempts, specificErrors) ==
    /\ opKind = kind
    /\ opPc = "try"
    /\ runs' = runs + 1
    /\ CalledAfterCancel(kind)
    /\ \E e \in {NoError} \cup CommandErrors :
          /\ lastErr' = e
          /\ IF /\ e # NoError
                /\ attempt < maxAttempts
                /\ \E specificError \in specificErrors : Contains(e, specificError)
             THEN /\ attempt' = attempt + 1
                  /\ \E s \in BackoffSeconds : seconds' = s
                  /\ opPc' = "sleep"
                  /\ UNCHANGED opErr
             ELSE /\ OperationReturns(e)
                  /\ UNCHANGED <<attempt, seconds>>
    /\ UNCHANGED <<config, pc, err, digest, image, stages, ShouldAddManagedImageRecord,
                   digestMutex, lockHolders, storedImages, stagesCache, uniqueIDClock,
                   calls, afterStages, opKind, sleepSecondsEnv, ctxCancelled,
                   cancelledInSleep, sleptAfterCancel>>

\* image.go 79-110.
doCliPullWithRetries == tryCommand("pull", cliPullMaxAttempts, PullSpecificErrors)

\* image.go 124-158.
doCliPushWithRetries == tryCommand("push", cliPushMaxAttempts, PushSpecificErrors)

\* atomicBuildStageImage 488-493 and 502-507: the test-hook sleep is entered
\* when the variable is set.
TestHookSleep ==
    /\ opKind \in TestHooks
    /\ opPc = "start"
    /\ IF sleepSecondsEnv # "" /\ Sscanf(sleepSecondsEnv) > 0
       THEN /\ seconds' = Sscanf(sleepSecondsEnv)
            /\ opPc' = "sleep"
       ELSE /\ opPc' = "call"
            /\ UNCHANGED seconds
    /\ UNCHANGED <<config, pc, err, digest, image, stages, ShouldAddManagedImageRecord,
                   digestMutex, lockHolders, storedImages, stagesCache, uniqueIDClock,
                   calls, afterStages, opKind, sleepSecondsEnv, attempt, opErr,
                   ctxCancelled, runs, lastErr, cancelledInSleep, sleptAfterCancel,
                   callsAfterCancel>>

\* atomicBuildStageImage 495-499 and 509-513: the call after the sleep,
\* stageImage.Build or StorageLockManager.LockStage.
TestHookCall ==
    /\ opKind \in TestHooks
    /\ opPc = "call"
    /\ CalledAfterCancel(IF opKind = "sleepBeforeStageBuild" THEN "Build" ELSE "LockStage")
    /\ \E e \in {NoError, <<"context canceled">>} : OperationReturns(e)
    /\ UNCHANGED <<config, pc, err, digest, image, stages, ShouldAddManagedImageRecord,
                   digestMutex, lockHolders, storedImages, stagesCache, uniqueIDClock,
                   calls, afterStages, opKind, sleepSecondsEnv, attempt, seconds,
                   ctxCancelled, runs, lastErr, cancelledInSleep, sleptAfterCancel>>

\* time.Sleep (image.go 100 and 148, atomicBuildStageImage 492 and 506): a
\* second of the sleep passes, whatever the state of the context; after the
\* last one the operation goes on.
TimeSleep ==
    /\ opPc = "sleep"
    /\ seconds > 0
    /\ seconds' = seconds - 1
    /\ sleptAfterCancel' = (sleptAfterCancel \/ ctxCancelled)
    /\ opPc' = IF seconds' > 0 THEN "sleep"
               ELSE IF opKind \in TestHooks THEN "call" ELSE "try"
    /\ UNCHANGED <<config, pc, err, digest, image, stages, ShouldAddManagedImageRecord,
                   digestMutex, lockHolders, storedImages, stagesCache, uniqueIDClock,
                   calls, afterStages, opKind, sleepSecondsEnv, attempt, opErr,
                   ctxCancelled, runs, lastErr, cancelledInSleep, callsAfterCancel>>

\* The build context is cancelled while the operation runs.
CancelContext ==
    /\ ~ctxCancelled
    /\ opPc # "done"
    /\ ctxCancelled' = TRUE
    /\ cancelledInSleep' = (opPc = "sleep")
    /\ UNCHANGED <<config, pc, err, digest, image, stages, ShouldAddManagedImageRecord,
                   digestMutex, lockHolders, storedImages, stagesCache, uniqueIDClock,
                   calls, afterStages, opKind, sleepSecondsEnv, opPc, attempt, seconds,
                   opErr, runs, lastErr, sleptAfterCancel, callsAfterCancel>>

InitRetry ==
    /\ opKind \in SleepingOperations
    /\ sleepSecondsEnv \in SleepSecondsEnvValues
    /\ opKind \notin TestHooks => sleepSecondsEnv = ""
    /\ opPc = IF opKind \in TestHooks THEN "start" ELSE "try"
    /\ attempt = 0
    /\ seconds = 0
    /\ opErr = NoError
    /\ ctxCancelled = FALSE
    /\ runs = 0
    /\ lastErr = NoError
    /\ cancelledInSleep = FALSE
    /\ sleptAfterCancel = FALSE
    /\ callsAfterCancel = {}
    /\ proc = [b \in Builders |-> "procA"]
    /\ stageDependencies = [b \in Builders |-> "fromCacheVersion=1"]
    /\ prevImage = [b \in Builders |-> "base1"]
    /\ ShouldBeBuiltMode = [p \in Procs |-> FALSE]
    /\ imageOf = [b \in Builders |-> b]
    /\ phaseOf = [i \in Builders |-> i]
    /\ stgName = [b \in Builders |-> "from"]
    /\ isEmpty = [b \in Builders |-> FALSE]
    /\ nextStageDependencies = [b \in Builders |-> ""]
    /\ imageName = [i \in Builders |-> "app"]
    /\ isArtifact = [i \in Builders |-> FALSE]
    /\ localGitRepo = [p \in Procs |-> TRUE]
    /\ buildOptions = [p \in Procs |-> JsonReportOptions]
    /\ ReportPath = [p \in Procs |-> NewBuildPhase(buildOptions[p]).ReportPath]
    /\ ReportFormat = [p \in Procs |-> NewBuildPhase(buildOptions[p]).ReportFormat]
    /\ imagesPc = [p \in Procs |-> "images"]
    /\ imagesErr = [p \in Procs |-> "nil"]
    /\ ImagesReport = [p \in Procs |-> NewBuildPhase(buildOptions[p]).ImagesReport]
    /\ reportFile = [p \in Procs |-> NoFile]
    /\ afterPc = [i \in Builders |-> "stages"]
    /\ afterErr = [i \in Builders |-> "nil"]
    /\ lastNonEmptyStage = [i \in Builders |-> NoStage]
    /\ contentDigest = [i \in Builders |-> NoDigest]
    /\ afterCalls = [i \in Builders |-> {}]
    /\ managedImages = {}
    /\ imageMetadata = {}
    /\ pc = [b \in Builders |-> "start"]
    /\ err = [b \in Builders |-> "nil"]
    /\ digest = [b \in Builders |-> NoDigest]
    /\ image = [b \in Builders |-> NoImage]
    /\ stages = [b \in Builders |-> <<>>]
    /\ ShouldAddManagedImageRecord = [b \in Builders |-> FALSE]
    /\ digestMutex = [m \in Procs \X Digests |-> {}]
    /\ lockHolders = [d \in Digests |-> {}]
    /\ storedImages = {}
    /\ stagesCache = [d \in Digests |-> <<>>]
    /\ uniqueIDClock = 0
    /\ calls = [b \in Builders |-> {}]

NextRetry ==
    \/ doCliPullWithRetries
    \/ doCliPushWithRetries
    \/ TestHookSleep
    \/ TestHookCall
    \/ TimeSleep
    \/ CancelContext

RetrySpec == InitRetry /\ [][NextRetry]_vars

(***************************************************************************)
(* Vocabulary of the properties.                                           *)
(***************************************************************************)
\* The handler has computed its stage's digest.
HasDigest(b) == digest[b] # NoDigest

\* The handler is between the Lock of its digest mutex in calculateStage and
\* the return of its onImageStage call.
InHandling(b) ==
    pc[b] \in {"calculate", "calculated", "build", "lockStage", "recheck",
               "store", "getDescription", "storeToCache", "built"}

\* The handler is in the publish window of atomicBuildStageImage: after
\* LockStage, up to the return of atomicBuildStageImage.
InPublishWindow(b) == pc[b] \in {"recheck", "store", "getDescription", "storeToCache"}

HoldsDigestMutex(b) == HasDigest(b) /\ b \in digestMutex[GetStageDigestMutex(b)]

HoldsStageLock(b) == HasDigest(b) /\ b \in lockHolders[digest[b]]

\* Two different handlers of one process whose stages have the same digest.
SameProcessSameDigest(a, b) ==
    a # b /\ proc[a] = proc[b] /\ HasDigest(a) /\ digest[a] = digest[b]

\* The stage IDs the digest -> stage-IDs cache lists for a digest.
CachedStageIDs(d) == { stagesCache[d][i] : i \in 1..Len(stagesCache[d]) }

(***************************************************************************)
(* C1.  Within one process, for every digest and every interleaving, at    *)
(* most one handler is between the Lock of the digest's mutex and the      *)
(* return of its onImageStage call: the lookup, build and publish steps of *)
(* two handlers of one digest never overlap.                               *)
(***************************************************************************)
C1_OneHandlerPerDigest ==
    /\ \A a, b \in Builders :
          SameProcessSameDigest(a, b) => ~(InHandling(a) /\ InHandling(b))
    /\ \A m \in DOMAIN digestMutex : Cardinality(digestMutex[m]) <= 1

\* One handler builds while another of the same process and digest waits
\* for the mutex.
C1_Witness ==
    \E a, b \in Builders :
        SameProcessSameDigest(a, b) /\ pc[a] = "build" /\ pc[b] = "lock"

(***************************************************************************)
(* C2.  StoreImage and AtomicStoreStagesByDigestToCache for a digest are   *)
(* called only by a builder that holds the lock of (project, digest), and  *)
(* at most one builder of all processes holds that lock, so no two         *)
(* builders are in the publish window of one digest at the same time.      *)
(***************************************************************************)
C2_PublishUnderStageLock ==
    /\ \A b \in Builders : InPublishWindow(b) => HoldsStageLock(b)
    /\ \A d \in Digests : Cardinality(lockHolders[d]) <= 1
    /\ \A a, b \in Builders :
          (a # b /\ InPublishWindow(a) /\ InPublishWindow(b)) => digest[a] # digest[b]

\* A builder is about to write the cache while a builder of another process
\* with the same digest has built and waits for the lock.
C2_Witness ==
    \E a, b \in Builders :
        /\ proc[a] # proc[b] /\ digest[a] = digest[b]
        /\ pc[a] = "storeToCache" /\ pc[b] = "lockStage"

\* The handlers whose stage has digest d.
BuildersOf(d) == { b \in Builders : digest[b] = d }

\* Every entry a handler of d can store is suitable for every handler of d.
AllSuitable(d) == \A a, b \in BuildersOf(d) : prevImage[a] = prevImage[b]

\* One of the storage calls of the publish step of b failed.
PublishFailed(b) ==
    err[b] \in {"StoreImage", "GetStageDescription", "AtomicStoreStagesByDigestToCache"}

\* The handlers that called StoreImage for d.
Storers(d) == { b \in BuildersOf(d) : "StoreImage" \in calls[b] }

\* atomicBuildStageImage of b has returned nil (store path or discard path).
AtomicBuildReturnedNil(b) ==
    /\ "LockStage" \in calls[b]
    /\ pc[b] = "built" \/ (pc[b] = "done" /\ err[b] \in {"nil", "Introspect"})

\* onImageStage of b has returned nil after the build path.
BuildPathReturnedNil(b) == "Build" \in calls[b] /\ pc[b] = "done" /\ err[b] = "nil"

\* The candidates listed for d that were built on the base image.
ListedOn(d, base) ==
    { i \in 1..Len(stagesCache[d]) : GetStagesByDigest(d)[i].parent = base }

(***************************************************************************)
(* C3, as claimed.  Of the builders of different processes that miss the   *)
(* cache for one digest and all build an image, every entry being suitable *)
(* for every one of them, only one calls StoreImage: no two of them both   *)
(* call it, whatever the outcome of the storage calls of the publish.      *)
(***************************************************************************)
C3_OnlyOneBuilderStores ==
    \A a, b \in Builders :
        ( /\ a # b /\ proc[a] # proc[b]
          /\ digest[a] = digest[b] /\ HasDigest(a) /\ AllSuitable(digest[a])
          /\ "Build" \in calls[a] /\ "Build" \in calls[b] ) =>
            ~("StoreImage" \in calls[a] /\ "StoreImage" \in calls[b])

(***************************************************************************)
(* C3.  Builders that miss the cache for one digest and build, every entry *)
(* being suitable for every one of them: no digest ever lists two entries  *)
(* built on the same base image, and, in a run where no StoreImage,        *)
(* GetStageDescription or cache write of these builders fails, only one    *)
(* builder calls StoreImage; every builder whose atomicBuildStageImage     *)
(* returned nil is bound to the entry of that one builder, the others      *)
(* having discarded their build at the re-check under the lock.            *)
(***************************************************************************)
C3_SingleStore ==
    /\ \A d \in Digests : \A base \in BaseImages : Cardinality(ListedOn(d, base)) <= 1
    /\ \A d \in Digests :
          (AllSuitable(d) /\ \A b \in BuildersOf(d) : ~PublishFailed(b)) =>
              /\ Cardinality(Storers(d)) <= 1
              /\ \A b \in BuildersOf(d) :
                    AtomicBuildReturnedNil(b) =>
                        \E s \in Storers(d) :
                            /\ image[b].desc = BuiltStageDescription(s)
                            /\ (b # s => "StoreImage" \notin calls[b])

\* Two builders of different processes both built; one stored, the other
\* returned without a StoreImage call.
C3_Witness ==
    \E a, b \in Builders :
        /\ proc[a] # proc[b] /\ digest[a] = digest[b] /\ prevImage[a] = prevImage[b]
        /\ BuildPathReturnedNil(a) /\ BuildPathReturnedNil(b)
        /\ "StoreImage" \in calls[a] /\ "StoreImage" \notin calls[b]

(***************************************************************************)
(* C4.  Publish race of two builders of one digest whose entries suit each *)
(* other: after both handlers returned nil from the build path their stage *)
(* images carry the same StageDescription, and a lookup made for a handler *)
(* that returned nil selects, in every later state, the description that   *)
(* handler is bound to.                                                    *)
(***************************************************************************)
C4_RaceEndsOnOneDescription ==
    /\ \A a, b \in Builders :
          ( /\ a # b /\ digest[a] = digest[b] /\ prevImage[a] = prevImage[b]
            /\ BuildPathReturnedNil(a) /\ BuildPathReturnedNil(b) ) =>
              (image[a].desc = image[b].desc /\ image[a].desc # NoDesc)
    /\ \A b \in Builders :
          (pc[b] = "done" /\ err[b] = "nil" /\ image[b].desc # NoDesc) =>
              SelectSuitableStage(b, GetStagesByDigest(digest[b])) = image[b].desc

\* A built its image, B published first, and A ended bound to B's image.
C4_Witness ==
    \E a, b \in Builders :
        /\ a # b /\ proc[a] # proc[b]
        /\ BuildPathReturnedNil(a) /\ BuildPathReturnedNil(b)
        /\ image[a].builtId = 0 /\ image[a].desc.id = b /\ image[b].desc.id = b

\* The handler's own built image is listed in the cache of its digest.
Published(b) ==
    /\ "AtomicStoreStagesByDigestToCache" \in calls[b]
    /\ image[b].desc # NoDesc
    /\ image[b].desc.id = b
    /\ StageIDOf(image[b].desc) \in CachedStageIDs(digest[b])

(***************************************************************************)
(* C5.  Within one process, starting from a storage with no stage for the  *)
(* digest: while the image one handler built and published is listed and   *)
(* suitable for another handler of the same process and digest, that other *)
(* handler is nowhere in the build path (it does not run Build, and it     *)
(* does not publish), and once it is past calculateStage its stage is      *)
(* bound to a description: a cache hit.                                    *)
(***************************************************************************)
C5_OneBuildPerProcess ==
    \A a, b \in Builders :
        (SameProcessSameDigest(a, b) /\ Published(a) /\ IsSuitable(b, image[a].desc)) =>
            /\ pc[b] \notin {"build", "lockStage", "recheck", "store",
                             "getDescription", "storeToCache", "built"}
            /\ (pc[b] = "calculated" => image[b].desc = image[a].desc)

\* The second handler of the process resolved the digest as a cache hit on
\* the image the first one built.
C5_Witness ==
    \E a, b \in Builders :
        /\ SameProcessSameDigest(a, b) /\ Published(a)
        /\ pc[b] = "calculated" /\ image[b].desc = image[a].desc
        /\ calls[b] = {}

(***************************************************************************)
(* C6.  A handler calls LockStage for a digest, and holds the lock of      *)
(* (project, digest), only while it holds the in-process mutex of the same *)
(* digest.                                                                 *)
(***************************************************************************)
C6_MutexBeforeStageLock ==
    \A b \in Builders :
        /\ pc[b] = "lockStage" => HoldsDigestMutex(b)
        /\ \A d \in Digests :
              b \in lockHolders[d] => (d = digest[b] /\ HoldsDigestMutex(b))

\* A handler holds both locks of its digest.
C6_Witness == \E b \in Builders : HoldsStageLock(b) /\ HoldsDigestMutex(b)

(***************************************************************************)
(* C7.  Whenever onImageStage has returned for a non-empty stage, with nil *)
(* or with any error, the in-process mutex of the stage's digest that the  *)
(* handler locked in calculateStage is unlocked again.                     *)
(***************************************************************************)
C7_MutexReleasedOnReturn ==
    \A b \in Builders : pc[b] = "done" => ~HoldsDigestMutex(b)

(***************************************************************************)
(* C8 as claimed.  stageImage.Build runs while the handler holds both the  *)
(* in-process mutex of the digest and the lock of (project, digest).       *)
(***************************************************************************)
C8_BuildUnderBothLocks ==
    \A b \in Builders : pc[b] = "build" => (HoldsDigestMutex(b) /\ HoldsStageLock(b))

(***************************************************************************)
(* C8 as amended.  stageImage.Build runs while the handler holds the       *)
(* in-process mutex of the digest and does not hold the lock of            *)
(* (project, digest); a handler that holds that lock has Build behind it.  *)
(***************************************************************************)
C8_BuildUnderMutexOnly ==
    \A b \in Builders :
        /\ pc[b] = "build" => (HoldsDigestMutex(b) /\ ~HoldsStageLock(b))
        /\ HoldsStageLock(b) => ("Build" \in calls[b] /\ HoldsDigestMutex(b))

\* Build runs in one handler while a builder of another process holds the
\* lock of the same digest.
C8_Witness ==
    \E a, b \in Builders :
        /\ a # b /\ digest[a] = digest[b]
        /\ pc[a] = "build" /\ HoldsDigestMutex(a) /\ HoldsStageLock(b)

(***************************************************************************)
(* C9.  The lock of (project, digest) is held only by a handler whose      *)
(* Build has returned successfully and that is in the publish window; once *)
(* atomicBuildStageImage has returned, on the store path, on the discard   *)
(* path or with any error, the handler holds no stage lock.                *)
(***************************************************************************)
C9_StageLockAfterBuildUntilReturn ==
    \A b \in Builders : \A d \in Digests :
        /\ b \in lockHolders[d] =>
              /\ d = digest[b]
              /\ "Build" \in calls[b] /\ image[b].builtId = b
              /\ InPublishWindow(b)
        /\ pc[b] \in {"built", "done"} => b \notin lockHolders[d]

\* One handler left the publish window with an error of the storage, another
\* one left it on the store path.
C9_Witness ==
    \E a, b \in Builders :
        /\ pc[a] = "done" /\ "LockStage" \in calls[a]
        /\ err[a] \in {"GetStagesByDigest", "SelectSuitableStage", "StoreImage",
                       "GetStageDescription", "AtomicStoreStagesByDigestToCache"}
        /\ pc[b] = "built" /\ "AtomicStoreStagesByDigestToCache" \in calls[b]

(***************************************************************************)
(* C10.  When the build path of a stage has returned nil (store path or    *)
(* discard path) the stage's image has a StageDescription, so the panic    *)
(* after buildStage in onImageStage never happens, and the StageID of the  *)
(* description is in the stage-IDs list of the cache of the stage's digest.*)
(***************************************************************************)
C10_BuiltStageIsDescribedAndCached ==
    \A b \in Builders :
        /\ err[b] # "panic"
        /\ (pc[b] = "built" \/ BuildPathReturnedNil(b)) =>
              /\ image[b].desc # NoDesc
              /\ StageIDOf(image[b].desc) \in CachedStageIDs(digest[b])

\* One handler returned nil on the store path and one on the discard path.
C10_Witness ==
    \E a, b \in Builders :
        /\ BuildPathReturnedNil(a) /\ BuildPathReturnedNil(b)
        /\ image[a].builtId = a /\ image[b].builtId = 0
        /\ ShouldAddManagedImageRecord[a] /\ ShouldAddManagedImageRecord[b]

\* The publish of b ran to its end: StoreImage, the read-back and the write of
\* the cache all succeeded.
PublishCompleted(b) ==
    /\ "AtomicStoreStagesByDigestToCache" \in calls[b]
    /\ pc[b] \in {"built", "done"}
    /\ err[b] # "AtomicStoreStagesByDigestToCache"

\* The stage IDs of the candidates b got from the re-query under the lock.
RequeriedStageIDs(b) == [i \in 1..Len(stages[b]) |-> StageIDOf(stages[b][i])]

\* Between the re-query and the write of the cache, the list of b's digest is
\* still the list b re-queried: the write keeps every ID listed before it.
WriteKeepsListedIDs ==
    \A b \in Builders :
        pc[b] \in {"store", "getDescription", "storeToCache"} =>
            RequeriedStageIDs(b) = stagesCache[digest[b]]

(***************************************************************************)
(* C11 as claimed.  Whenever no builder is in the publish window of a      *)
(* digest, the stage-IDs list of the digest contains the StageID of every  *)
(* image StoreImage has stored for it; and each write keeps every ID that  *)
(* was listed before it.                                                   *)
(***************************************************************************)
C11_EveryStoredImageListed ==
    /\ \A s \in storedImages :
          (\A b \in BuildersOf(s.digest) : ~InPublishWindow(b)) =>
              StageIDOf(s) \in CachedStageIDs(s.digest)
    /\ WriteKeepsListedIDs

(***************************************************************************)
(* C11 as amended.  The stage-IDs list of a digest contains the StageID of *)
(* every image stored by a builder whose publish ran to its end            *)
(* (StoreImage, read-back and cache write succeeded), whatever was         *)
(* published for the digest afterwards; and each write keeps every ID that *)
(* was listed before it.                                                   *)
(***************************************************************************)
C11_CompletedPublishesListed ==
    /\ \A b \in Builders :
          PublishCompleted(b) =>
              /\ BuiltStageDescription(b) \in storedImages
              /\ StageIDOf(BuiltStageDescription(b)) \in CachedStageIDs(digest[b])
    /\ WriteKeepsListedIDs

\* Two builders published for one digest, one after the other, and the list
\* holds both IDs.
C11_Witness ==
    \E a, b \in Builders :
        /\ a # b /\ digest[a] = digest[b]
        /\ PublishCompleted(a) /\ PublishCompleted(b)
        /\ Len(stagesCache[digest[a]]) = 2

\* The calls of the build path, in the order of the code.
BuildPathCalls ==
    <<"Build", "LockStage", "StoreImage", "GetStageDescription",
      "AtomicStoreStagesByDigestToCache">>

(***************************************************************************)
(* C12.  Every StageID the cache lists is the ID of an image in the        *)
(* storage whose builder ran Build, StoreImage and GetStageDescription     *)
(* with success before the write and holds the description read back; a    *)
(* builder makes a call of the build path only after the calls before it,  *)
(* and when Build, LockStage, StoreImage or GetStageDescription failed the *)
(* handler has returned that error, has made no later call of the path and *)
(* has nothing listed.                                                     *)
(***************************************************************************)
C12_ListedOnlyAfterBuildStoreReadBack ==
    /\ \A d \in Digests : \A i \in 1..Len(stagesCache[d]) :
          \E s \in storedImages :
              /\ StageIDOf(s) = stagesCache[d][i] /\ s.digest = d
              /\ s.id \in Builders
              /\ \A k \in 1..5 : BuildPathCalls[k] \in calls[s.id]
              /\ image[s.id].builtId = s.id /\ image[s.id].desc = s
              /\ err[s.id] \notin {"Build", "LockStage", "StoreImage", "GetStageDescription"}
    /\ \A b \in Builders : \A k \in 1..5 :
          /\ BuildPathCalls[k] \in calls[b] =>
                \A j \in 1..(k - 1) : BuildPathCalls[j] \in calls[b]
          /\ (k <= 4 /\ err[b] = BuildPathCalls[k]) =>
                /\ pc[b] = "done"
                /\ \A j \in (k + 1)..5 : BuildPathCalls[j] \notin calls[b]
                /\ \A d \in Digests : \A i \in 1..Len(stagesCache[d]) :
                      GetStageDescription(d, stagesCache[d][i].uniqueID).id # b
    /\ \A b \in Builders :
          /\ pc[b] = "getDescription" => BuiltStageDescription(b) \in storedImages
          /\ pc[b] = "storeToCache" => image[b].desc = BuiltStageDescription(b)

\* One builder stored its image and failed to read it back, so the image is
\* in the storage and is not listed; another builder's image is listed.
C12_Witness ==
    \E a, b \in Builders :
        /\ digest[a] = digest[b]
        /\ err[a] = "GetStageDescription"
        /\ BuiltStageDescription(a) \in storedImages
        /\ StageIDOf(BuiltStageDescription(a)) \notin CachedStageIDs(digest[a])
        /\ PublishCompleted(b)
        /\ StageIDOf(image[b].desc) \in CachedStageIDs(digest[b])

(***************************************************************************)
(* C16.  Once a builder has published a newly built stage for a digest     *)
(* (StoreImage, read-back, cache write), a handler of any process whose    *)
(* stage has the same digest and for which that entry is suitable finds it *)
(* at its lookup: GetStagesByDigest and SelectSuitableStage give the       *)
(* description the publisher ended with, and a handler that is past the    *)
(* lookup and did not build is bound to that description, under the same   *)
(* image name, having made no call of the build path.                      *)
(***************************************************************************)
C16_LaterHandlerReusesPublished ==
    \A a, b \in Builders :
        ( /\ a # b /\ HasDigest(b) /\ digest[a] = digest[b]
          /\ PublishCompleted(a) /\ IsSuitable(b, BuiltStageDescription(a)) ) =>
            /\ image[a].desc = BuiltStageDescription(a)
            /\ pc[b] = "calculate" =>
                  /\ GetStagesByDigest(digest[b]) # <<>>
                  /\ CalculatedStageDesc(b) = image[a].desc
            /\ (pc[b] \in {"calculated", "done"} /\ "Build" \notin calls[b]
                  /\ image[b].desc # NoDesc) =>
                  /\ image[b].desc = image[a].desc
                  /\ StageIDOf(image[b].desc) = StageIDOf(image[a].desc)
                  /\ image[b].name = image[a].name
                  /\ image[b].builtId = 0
                  /\ calls[b] = {}

\* A handler of another process looked the digest up after the publish and
\* returned nil, bound to the publisher's description, without building.
C16_Witness ==
    \E a, b \in Builders :
        /\ proc[a] # proc[b] /\ digest[a] = digest[b]
        /\ PublishCompleted(a) /\ image[a].builtId = a
        /\ pc[b] = "done" /\ err[b] = "nil" /\ calls[b] = {}
        /\ image[b].desc = image[a].desc /\ image[b].name = image[a].name

(***************************************************************************)
(* Vocabulary of the properties of ChainSpec.                              *)
(***************************************************************************)
\* The handler of the stage of call b has been entered.
HandlerStarted(b) == pc[b] # "start"

\* The stage of b was resolved as a cache hit at the lookup of calculateStage.
CacheHit(b) == image[b].desc # NoDesc /\ calls[b] = {}

\* The stage of b was built, and the build was discarded for an entry another
\* builder had published.
Rebound(b) ==
    /\ image[b].desc # NoDesc /\ image[b].builtId = 0
    /\ "Build" \in calls[b] /\ "StoreImage" \notin calls[b]

\* The stage of b was built and published by b.
BuiltAndPublished(b) ==
    /\ PublishCompleted(b)
    /\ image[b].builtId = b /\ image[b].desc = BuiltStageDescription(b)

\* The description of b's stage is one the cache of the stage's digest lists.
BoundToListed(b) ==
    /\ image[b].desc \in storedImages
    /\ StageIDOf(image[b].desc) \in CachedStageIDs(digest[b])
    /\ image[b].name = StageImageName(digest[b], image[b].desc.uniqueID)

(***************************************************************************)
(* C13.  Within one image, when the handler of a stage has been entered    *)
(* the handlers of all earlier stages of the image have returned (nil),    *)
(* and every earlier non-empty stage is bound to an image with a stage     *)
(* description that the cache of its digest lists: it was a cache hit, or  *)
(* it was built and published by this build up to the write of the cache,  *)
(* or it was rebound to an entry another builder published.                *)
(***************************************************************************)
C13_NextStageAfterPrevResolved ==
    \A b \in StageCalls : \A a \in EarlierStages(b) :
        HandlerStarted(b) =>
            /\ pc[a] = "done" /\ err[a] = "nil"
            /\ ~isEmpty[a] =>
                  /\ image[a].desc # NoDesc
                  /\ BoundToListed(a)
                  /\ CacheHit(a) \/ BuiltAndPublished(a) \/ Rebound(a)

\* The handler of "setup" of the second build is entered after "from" was
\* rebound to the first build's entry and "install" was built and published.
C13_Witness ==
    \E b \in StageCalls :
        /\ StageIndexOf(b) = 3 /\ HandlerStarted(b)
        /\ Rebound(b - 2) /\ BuiltAndPublished(b - 1)

(***************************************************************************)
(* C14.  When the handler of a non-empty stage other than "from" and       *)
(* "dockerfile" is entered, and as long as it runs, PrevNonEmptyStage and  *)
(* PrevBuiltStage are both set and are the same stage, in both modes; none *)
(* of the three panics on these pointers happens (a handler that panicked  *)
(* there has returned "panic" before its stage got a digest).              *)
(***************************************************************************)
C14_PrevStagesSetAndEqual ==
    \A b \in StageCalls :
        /\ ~(err[b] = "panic" /\ ~HasDigest(b))
        /\ ( /\ ~isEmpty[b] /\ stgName[b] \notin {"from", "dockerfile"}
             /\ StageIsNext(b) /\ pc[b] # "done" ) =>
              /\ PrevNonEmptyStage(b) # NoStage
              /\ PrevBuiltStage(b) # NoStage
              /\ PrevBuiltStage(b) = PrevNonEmptyStage(b)
              /\ ~PrevStagePanics(b)

\* "setup" is entered after an empty "install": both pointers are on "from",
\* here in ShouldBeBuiltMode.
C14_Witness ==
    \E b \in StageCalls :
        /\ StageIndexOf(b) = 3 /\ isEmpty[b - 1] /\ ShouldBeBuiltMode[proc[b]]
        /\ pc[b] = "lock"
        /\ PrevNonEmptyStage(b) = b - 2 /\ PrevBuiltStage(b) = b - 2

\* The storage holds a suitable stage for the digest of b's stage.
WarmFor(b) ==
    HasDigest(b) /\ SelectSuitableStage(b, GetStagesByDigest(digest[b])) # NoDesc

\* The errors calculateStage can return after the Lock of the digest mutex
\* (358, 361, 369, 380).
LookupErrors ==
    {"GetStagesByDigest", "SelectSuitableStage", "stages required", "ContentDigest"}

\* A step of the handler b on a warm storage: the lookup binds the stage to the
\* suitable description, and the handler then returns; no step of it makes a
\* call of the build path or changes the storage.
WarmHandlerStep(b) ==
    /\ (pc[b] = "calculate" /\ WarmFor(b) /\ pc'[b] # pc[b]) =>
          /\ \/ pc'[b] = "done" /\ err'[b] \in LookupErrors \ {"stages required"}
             \/ /\ pc'[b] = "calculated"
                /\ image'[b].desc = SelectSuitableStage(b, GetStagesByDigest(digest[b]))
                /\ image'[b].desc # NoDesc
          /\ calls'[b] = {}
          /\ UNCHANGED <<storedImages, stagesCache, lockHolders,
                         ShouldAddManagedImageRecord>>
    /\ (pc[b] = "calculated" /\ image[b].desc # NoDesc /\ pc'[b] # pc[b]) =>
          /\ pc'[b] = "done" /\ err'[b] \in {"nil", "Introspect"}
          /\ calls'[b] = {}
          /\ image'[b] = image[b]
          /\ UNCHANGED <<storedImages, stagesCache, lockHolders,
                         ShouldAddManagedImageRecord>>

(***************************************************************************)
(* C15.  A handler whose lookup is made on a storage that holds a suitable *)
(* stage for its digest binds its stage to that stage and returns: it      *)
(* makes no call to FetchBaseImage, FetchStage, PrepareImage, PreRunHook,  *)
(* Build, LockStage, StoreImage or AtomicStoreStagesByDigestToCache, and   *)
(* none of its steps changes the stored images, the cache lists or the     *)
(* stage locks.  So a run whose every non-empty stage finds a suitable     *)
(* stage leaves the storage as it found it.                                *)
(***************************************************************************)
C15_WarmRunBuildsNothing ==
    /\ [](\A b \in HandlerCalls :
            CacheHit(b) =>
                /\ pc[b] \in {"calculated", "done"}
                /\ image[b].builtId = 0
                /\ \A s \in storedImages : s.id # b
                /\ \A d \in DOMAIN lockHolders : b \notin lockHolders[d])
    /\ [][\A b \in HandlerCalls : WarmHandlerStep(b)]_vars

\* The second build ran after the first one with the same inputs: all of its
\* stages were cache hits, and the storage holds the three images of the first
\* build and nothing else.
C15_Witness ==
    /\ afterPc[2] = "done" /\ afterErr[2] = "nil"
    /\ \A b \in StagesOf(2) : ~isEmpty[b] /\ CacheHit(b) /\ pc[b] = "done"
    /\ \A s \in storedImages : s.id \in StagesOf(1)
    /\ Cardinality(storedImages) = 3

\* The call of the second build for the stage of call k of the first build.
SecondBuildCall(k) == k + Len(StageNames)

\* The two builds differ in the dependencies of stage i, a non-empty stage,
\* and in no other input of the digests.
OnlyDependenciesOfStageDiffer(i) ==
    /\ stageDependencies[i] # stageDependencies[SecondBuildCall(i)]
    /\ ~isEmpty[i]
    /\ \A k \in 1..Len(StageNames) :
          /\ k # i => stageDependencies[k] = stageDependencies[SecondBuildCall(k)]
          /\ isEmpty[k] = isEmpty[SecondBuildCall(k)]
          /\ nextStageDependencies[k] = nextStageDependencies[SecondBuildCall(k)]

(***************************************************************************)
(* C17.  Two builds of an image that differ in the dependencies of the     *)
(* non-empty stage i only (the hash taken as injective): every stage       *)
(* before i has the same digest in both builds, stage i and every later    *)
(* non-empty stage has different digests; in the second build no stage     *)
(* from i on is a cache hit or is rebound to an entry of the first build:  *)
(* past the lookup it has no description, and its handler returns nil only *)
(* after it built and published the stage itself.                          *)
(***************************************************************************)
C17_ChangedStageChangesLaterDigests ==
    \A i, k \in 1..Len(StageNames) :
        OnlyDependenciesOfStageDiffer(i) =>
            LET b == SecondBuildCall(k) IN
            /\ (HasDigest(k) /\ HasDigest(b)) =>
                  /\ k < i => digest[k] = digest[b]
                  /\ k >= i => digest[k] # digest[b]
            /\ (k >= i /\ ~isEmpty[b]) =>
                  /\ ~CacheHit(b) /\ ~Rebound(b)
                  /\ pc[b] = "calculated" => image[b].desc = NoDesc
                  /\ (pc[b] = "done" /\ err[b] = "nil") => BuiltAndPublished(b)

\* The second build differs in the dependencies of "install": its "from" is a
\* cache hit on the first build's stage with the same digest, its "install"
\* and "setup" got other digests and were built and published.
C17_Witness ==
    /\ OnlyDependenciesOfStageDiffer(2)
    /\ digest[1] = digest[4] /\ CacheHit(4)
    /\ HasDigest(2) /\ digest[2] # digest[5] /\ BuiltAndPublished(5)
    /\ HasDigest(3) /\ digest[3] # digest[6] /\ BuiltAndPublished(6)

\* The calls a and b are for the same stage of two builds whose inputs of the
\* digests agree up to that stage.
SameDigestInputs(a, b) ==
    /\ StageIndexOf(a) = StageIndexOf(b)
    /\ \A k \in 0..(StageIndexOf(a) - 1) :
          /\ stgName[a - k] = stgName[b - k]
          /\ stageDependencies[a - k] = stageDependencies[b - k]
          /\ isEmpty[a - k] = isEmpty[b - k]
          /\ k > 0 => nextStageDependencies[a - k] = nextStageDependencies[b - k]

(***************************************************************************)
(* C18.  The digest a handler assigns to a stage is the chain of           *)
(* calculateDigest over the build-cache version, the names and the         *)
(* dependencies of the non-empty stages up to it and the next-stage        *)
(* dependencies of the stages before it; two builds whose inputs agree     *)
(* assign the same digest to the stage, whatever the storage holds,        *)
(* whether the stages were cache hits or were built, and however the       *)
(* handlers of other builds interleave.                                    *)
(***************************************************************************)
C18_DigestDependsOnInputsOnly ==
    /\ \A b \in StageCalls : HasDigest(b) => digest[b] = ExpectedDigest(b)
    /\ \A a, b \in StageCalls :
          (HasDigest(a) /\ HasDigest(b) /\ SameDigestInputs(a, b)) =>
              digest[a] = digest[b]

\* Two processes build the image from the same inputs: "setup" was built and
\* published by one and was a cache hit for the other, on "from" stages of
\* which one was built and the other rebound, and the digests are the same.
C18_Witness ==
    \E a, b \in StageCalls :
        /\ proc[a] # proc[b] /\ StageIndexOf(a) = 3 /\ SameDigestInputs(a, b)
        /\ digest[a] = digest[b]
        /\ BuiltAndPublished(a) /\ CacheHit(b)
        /\ BuiltAndPublished(a - 2) /\ Rebound(b - 2)

(***************************************************************************)
(* C19.  In ShouldBeBuiltMode a handler never makes a call of the build    *)
(* path (no FetchBaseImage, FetchStage, PrepareImage, PreRunHook, Build,   *)
(* LockStage, StoreImage, cache write), holds no stage lock, stores        *)
(* nothing and does not set ShouldAddManagedImageRecord; it gets past the  *)
(* lookup only with a suitable stage, so the handler of a non-empty stage  *)
(* returns nil only on a cache hit, and a stage with no suitable stage in  *)
(* the storage ends the handler with "stages required", after the stage    *)
(* got the digest the diagnostic names and before it got an image.  No     *)
(* handler returns "stages required" outside ShouldBeBuiltMode.            *)
(***************************************************************************)
C19_ShouldBeBuiltModeNeverBuilds ==
    \A b \in StageCalls :
        /\ ShouldBeBuiltMode[proc[b]] =>
              /\ calls[b] = {}
              /\ pc[b] \in {"start", "lock", "calculate", "calculated", "done"}
              /\ \A d \in DOMAIN lockHolders : b \notin lockHolders[d]
              /\ \A s \in storedImages : s.id # b
              /\ image[b].builtId = 0
              /\ ~ShouldAddManagedImageRecord[PhaseOf(b)]
              /\ pc[b] = "calculated" => image[b].desc # NoDesc
              /\ (pc[b] = "done" /\ err[b] = "nil" /\ ~isEmpty[b]) => CacheHit(b)
        /\ err[b] = "stages required" =>
              /\ ShouldBeBuiltMode[proc[b]]
              /\ pc[b] = "done" /\ HasDigest(b) /\ image[b] = NoImage
              /\ ~WarmFor(b) \/ \E a \in StageCalls : a # b /\ digest[a] = digest[b]

\* In ShouldBeBuiltMode "from" was a cache hit and "install", which the other
\* build has not published, ended the build with "stages required".
C19_Witness ==
    \E b \in StageCalls :
        /\ ShouldBeBuiltMode[proc[b]] /\ StageIndexOf(b) = 2
        /\ err[b] = "stages required" /\ HasDigest(b)
        /\ CacheHit(b - 1) /\ pc[b - 1] = "done" /\ err[b - 1] = "nil"

(***************************************************************************)
(* C20.  publishImageMetadata calls PutImageMetadata for (image, HEAD      *)
(* commit, stage ID) only after IsImageMetadataExist answered that the     *)
(* record is missing; PutImageMetadata is never called for a record that   *)
(* is in the storage at the moment of the call; and publishImageMetadata   *)
(* for an image whose record is in the storage returns without a put.      *)
(***************************************************************************)
C20_PutOnlyIfAbsent ==
    /\ [](\A i \in ImageBuilds :
            "PutImageMetadata" \in afterCalls[i] =>
                "IsImageMetadataExist" \in afterCalls[i])
    /\ [][\A i \in ImageBuilds :
            /\ (afterPc[i] = "putImageMetadata" /\ afterPc'[i] # afterPc[i]) =>
                  ImageMetadataOf(i) \notin imageMetadata
            /\ ( /\ afterPc[i] = "publishImageMetadata" /\ afterPc'[i] # afterPc[i]
                 /\ localGitRepo[ProcOf(i)]
                 /\ ImageMetadataOf(i) \in imageMetadata ) =>
                  (afterPc'[i] = "done" /\ imageMetadata' = imageMetadata)]_vars

(***************************************************************************)
(* Vocabulary of the properties of AfterImageStages and of the report.     *)
(***************************************************************************)
\* The stage of b was newly built in this run: the handler went through the
\* build path (onImageStage 296-302) rather than binding a stage at the lookup.
NewlyBuilt(b) == ~isEmpty[b] /\ "Build" \in calls[b]

(***************************************************************************)
(* C21.  AfterImageStages calls AddManagedImage for an image only if a     *)
(* stage of that image was newly built in the run: an image whose          *)
(* non-empty stages were all cache hits gets no AddManagedImage call,      *)
(* whatever images the phase instance handled before it.                   *)
(***************************************************************************)
C21_ManagedOnlyIfOwnStageBuilt ==
    \A i \in ImageBuilds :
        "AddManagedImage" \in afterCalls[i] =>
            /\ \E b \in StagesOf(i) : NewlyBuilt(b)
            /\ ~(\A b \in StagesOf(i) : ~isEmpty[b] => CacheHit(b))

\* AfterImages of process p has run createReport.
ReportCreated(p) == imagesPc[p] = "done"

\* The images of process p that are not artifacts.
ReportedImagesOf(p) == { i \in ImagesOf(p) : ~isArtifact[i] }

(***************************************************************************)
(* C22.  After AfterImages the images report of a build holds exactly one  *)
(* entry for each image that is not an artifact, keyed by the image's      *)
(* name, and no entry for an artifact; before AfterImages it is empty.     *)
(***************************************************************************)
C22_ReportHoldsNonArtifactsOnly ==
    \A p \in Procs :
        /\ ~ReportCreated(p) => DOMAIN ImagesReport[p] = {}
        /\ ReportCreated(p) =>
              /\ DOMAIN ImagesReport[p] = { imageName[i] : i \in ReportedImagesOf(p) }
              /\ Cardinality(DOMAIN ImagesReport[p]) = Cardinality(ReportedImagesOf(p))
              /\ \A i \in ImagesOf(p) :
                    isArtifact[i] => imageName[i] \notin DOMAIN ImagesReport[p]

\* A build of an image and an artifact: the report has the image only.
C22_Witness ==
    \E p \in Procs :
        /\ ReportCreated(p)
        /\ \E i, j \in ImagesOf(p) : isArtifact[i] /\ ~isArtifact[j]
        /\ Cardinality(DOMAIN ImagesReport[p]) = 1

\* The last non-empty stage of image i, by the image's configuration.
LastNonEmptyStageOf(i) == LastOf({ b \in StagesOf(i) : ~isEmpty[b] })

\* The report record of image i has the name, repository, tag and ID of desc.
RecordIsOf(rec, desc) ==
    /\ rec.WerfImageName = StageImageName(desc.digest, desc.uniqueID)
    /\ rec.DockerRepo = StageImageName(desc.digest, desc.uniqueID).repo
    /\ rec.DockerTag = StageImageName(desc.digest, desc.uniqueID).tag
    /\ rec.DockerImageID = desc.id

(***************************************************************************)
(* C23.  The report record of an image that is not an artifact has the     *)
(* name, repository, tag and ID of the stage description bound to the      *)
(* image's last non-empty stage at the end of the build, which is a        *)
(* description of the storage: for a stage built and published by the      *)
(* handler the one GetStageDescription reads back for its new stage ID     *)
(* (the ID of the image it stored), for a discarded build the listed       *)
(* entry of another builder.                                               *)
(***************************************************************************)
C23_ReportRecordIsBoundDescription ==
    \A p \in Procs :
        ReportCreated(p) =>
            \A i \in ReportedImagesOf(p) :
                LET b == LastNonEmptyStageOf(i)
                    desc == image[b].desc
                    rec == ImagesReport[p][imageName[i]]
                IN  /\ b # NoStage /\ desc # NoDesc
                    /\ desc \in storedImages
                    /\ RecordIsOf(rec, desc)
                    /\ BuiltAndPublished(b) =>
                          /\ desc = GetStageDescription(digest[b], desc.uniqueID)
                          /\ rec.DockerImageID = b
                    /\ Rebound(b) =>
                          /\ BoundToListed(b)
                          /\ rec.DockerImageID # b

\* Two processes built the last stage at once: one published it, the other
\* discarded its build, and both have created their reports.
C23_Witness ==
    \E p, q \in Procs :
        /\ p # q /\ ReportCreated(p) /\ ReportCreated(q)
        /\ \E i \in ReportedImagesOf(p), j \in ReportedImagesOf(q) :
              /\ BuiltAndPublished(LastNonEmptyStageOf(i))
              /\ Rebound(LastNonEmptyStageOf(j))
              /\ ImagesReport[p][imageName[i]] = ImagesReport[q][imageName[j]]

(***************************************************************************)
(* C24.  When the build options given to NewBuildPhase carry a non-empty   *)
(* ReportPath and the ReportFormat "json", an AfterImages that returns nil *)
(* has written the report JSON followed by exactly one newline to that     *)
(* path; when the path is empty or the format is not "json", no file is    *)
(* written.                                                                *)
(***************************************************************************)
C24_ReportFileWrittenWhenConfigured ==
    \A p \in Procs :
        /\ (ReportCreated(p) /\ imagesErr[p] = "nil") =>
              IF /\ buildOptions[p].ReportPath # ""
                 /\ buildOptions[p].ReportFormat = ReportJSON
              THEN reportFile[p] =
                      [path |-> buildOptions[p].ReportPath,
                       data |-> <<ToJson(ImagesReport[p]), "\n">>]
              ELSE reportFile[p] = NoFile
        /\ ~ReportCreated(p) => reportFile[p] = NoFile

(***************************************************************************)
(* C25.  For an artifact, AfterImageStages sets the image's last non-empty *)
(* stage and its content digest and returns: it never gets to              *)
(* publishImageMetadata, and it makes no AddManagedImage,                  *)
(* IsImageMetadataExist or PutImageMetadata call and leaves the storage's  *)
(* records alone, also when ShouldAddManagedImageRecord is true.           *)
(***************************************************************************)
C25_ArtifactMakesNoStorageCall ==
    /\ [](\A i \in ImageBuilds :
            isArtifact[i] =>
                /\ afterPc[i] \in {"stages", "done"}
                /\ afterCalls[i] = {}
                /\ afterPc[i] = "done" =>
                      /\ afterErr[i] = "nil"
                      /\ lastNonEmptyStage[i] = LastNonEmptyStageOf(i)
                      /\ lastNonEmptyStage[i] # NoStage
                      /\ contentDigest[i] = GetContentDigest(lastNonEmptyStage[i])
                      /\ contentDigest[i] # NoDigest)
    /\ [][\A i \in ImageBuilds :
            (isArtifact[i] /\ afterPc'[i] # afterPc[i]) =>
                /\ managedImages' = managedImages
                /\ imageMetadata' = imageMetadata]_vars

\* AfterImageStages has returned for an artifact handled by a phase whose
\* ShouldAddManagedImageRecord is set.
C25_Witness ==
    \E i \in ImageBuilds :
        /\ isArtifact[i] /\ afterPc[i] = "done"
        /\ ShouldAddManagedImageRecord[phaseOf[i]]
        /\ lastNonEmptyStage[i] # NoStage

(***************************************************************************)
(* C26.  One call of doCliPullWithRetries runs the pull command at most 5  *)
(* times and one call of doCliPushWithRetries runs the push command at     *)
(* most 10 times, whatever the errors; the call returns the error of its   *)
(* last run.                                                               *)
(***************************************************************************)
C26_RunsBoundedByMaxAttempts ==
    /\ opKind = "pull" => runs <= cliPullMaxAttempts
    /\ opKind = "push" => runs <= cliPushMaxAttempts
    /\ (opKind \in {"pull", "push"} /\ opPc = "done") => opErr = lastErr

(***************************************************************************)
(* C27.  When the build context is cancelled while an operation is in a    *)
(* test-hook sleep or in the backoff sleep of a pull or push, the sleep    *)
(* does not go on, and no Build, LockStage or further pull or push call    *)
(* is made after the cancellation.                                         *)
(***************************************************************************)
C27_CancelEndsSleep ==
    cancelledInSleep => (~sleptAfterCancel /\ callsAfterCancel = {})

(***************************************************************************)
(* C28.  Under fair scheduling, a handler that waits for the in-process    *)
(* mutex of its digest eventually acquires it and returns, whatever the    *)
(* outcomes of the other handlers of the digest in the process.            *)
(***************************************************************************)
C28_MutexWaiterReturns ==
    \A b \in Builders : (pc[b] = "lock") ~> (pc[b] = "done")

(***************************************************************************)
(* C29.  The handler of an empty stage returns nil and changes nothing, in *)
(* ShouldBeBuiltMode and outside it: it returns no FetchDependencies (or   *)
(* other) error, the stage gets no digest and no image, the handler makes  *)
(* no storage or container-runtime call and holds neither the in-process   *)
(* mutex nor the stage lock, and its step leaves ShouldAddManagedImageRecord*)
(* and the storage as they are.                                            *)
(***************************************************************************)
C29_EmptyStageChangesNothing ==
    /\ [](\A b \in StageCalls :
            isEmpty[b] =>
                /\ pc[b] \in {"start", "done"}
                /\ err[b] = "nil"
                /\ digest[b] = NoDigest
                /\ image[b] = NoImage
                /\ stages[b] = <<>>
                /\ calls[b] = {}
                /\ \A k \in DOMAIN digestMutex : b \notin digestMutex[k]
                /\ \A d \in DOMAIN lockHolders : b \notin lockHolders[d])
    /\ [][\A b \in StageCalls :
            (isEmpty[b] /\ pc'[b] # pc[b]) =>
                /\ pc'[b] = "done"
                /\ UNCHANGED <<digest, image, stages, calls, ShouldAddManagedImageRecord,
                               digestMutex, lockHolders, storedImages, stagesCache,
                               uniqueIDClock, afterStages>>]_vars

\* The handlers of an empty stage have returned in ShouldBeBuiltMode and in
\* normal mode, the latter in a phase whose ShouldAddManagedImageRecord is set.
C29_Witness ==
    \E a, b \in StageCalls :
        /\ isEmpty[a] /\ pc[a] = "done" /\ ShouldBeBuiltMode[proc[a]]
        /\ isEmpty[b] /\ pc[b] = "done" /\ ~ShouldBeBuiltMode[proc[b]]
        /\ ShouldAddManagedImageRecord[PhaseOf(b)]

====
